---------------------------- MODULE Spec2Model ----------------------------
(***************************************************************************)
(* A model of monegle: the frame codec (monegle-core/src/codec.rs), the    *)
(* sender's FrameBatcher (monegle-sender/src/batcher.rs), the receiver's   *)
(* FrameDecoder (monegle-receiver/src/decoder.rs), the jitter buffer       *)
(* FrameBuffer (monegle-receiver/src/buffer.rs) and the adaptive           *)
(* receiver's playback task (monegle-receiver/src/bin/adaptive-receiver.rs)*)
(*                                                                         *)
(* Conventions.  A String is the sequence of its chars, a char is its      *)
(* Unicode code point, a Vec<u8> is a sequence of numbers in 0..255.       *)
(* Option<T>: None is <<>> and Some(x) is <<x>>.  Result<T>: Ok(v) and Err.*)
(***************************************************************************)
EXTENDS Integers, Sequences, FiniteSets, TLC

None == <<>>
Some(x) == <<x>>
IsSome(o) == Len(o) = 1
Unwrap(o) == o[1]

Ok(v) == [ok |-> TRUE, val |-> v]
Err == [ok |-> FALSE, val |-> <<>>]

Min(a, b) == IF a < b THEN a ELSE b
Max(a, b) == IF a > b THEN a ELSE b
SetMin(S) == CHOOSE x \in S : \A y \in S : x <= y

\* n copies of x, as a sequence
Repeat(x, n) == <<>> \o [i \in 1..n |-> x]

\* data[from..to) with 0-based bounds, as a Rust slice
Slice(data, from, to) == SubSeq(data, from + 1, to)

(***************************************************************************)
(* Integer and character encodings used by the codec                       *)
(***************************************************************************)
U16_MAX == 65535

to_le_bytes_u16(n) == <<n % 256, (n \div 256) % 256>>
from_le_bytes_u16(b0, b1) == b0 + 256 * b1

to_le_bytes_u32(n) ==
    <<n % 256, (n \div 256) % 256, (n \div 65536) % 256, (n \div 16777216) % 256>>
\* u32::from_le_bytes(..) as usize.  The values from 2^31 up (b3 >= 128) are
\* larger than every length and count they are compared with, and so is
\* I32_MAX, which stands for them.
I32_MAX == 2147483647
from_le_bytes_u32(b0, b1, b2, b3) ==
    IF b3 >= 128 THEN I32_MAX
    ELSE b0 + 256 * b1 + 65536 * b2 + 16777216 * b3

\* char::encode_utf8
encode_utf8(c) ==
    IF c < 128 THEN <<c>>
    ELSE IF c < 2048 THEN <<192 + (c \div 64), 128 + (c % 64)>>
    ELSE IF c < 65536 THEN
        <<224 + (c \div 4096), 128 + ((c \div 64) % 64), 128 + (c % 64)>>
    ELSE <<240 + (c \div 262144), 128 + ((c \div 4096) % 64),
           128 + ((c \div 64) % 64), 128 + (c % 64)>>

\* str::as_bytes: the UTF-8 bytes of a string
RECURSIVE as_bytes(_)
as_bytes(s) == IF s = <<>> THEN <<>> ELSE encode_utf8(Head(s)) \o as_bytes(Tail(s))

IsCont(b) == b >= 128 /\ b <= 191

\* The length of the well-formed UTF-8 sequence at the head of data, 0 if none
Utf8SeqLen(data) ==
    LET n == Len(data)
        b0 == data[1]
    IN  IF n = 0 THEN 0
        ELSE IF b0 < 128 THEN 1
        ELSE IF b0 >= 194 /\ b0 <= 223 THEN
            IF n >= 2 /\ IsCont(data[2]) THEN 2 ELSE 0
        ELSE IF b0 >= 224 /\ b0 <= 239 THEN
            IF /\ n >= 3
               /\ data[2] >= (IF b0 = 224 THEN 160 ELSE 128)
               /\ data[2] <= (IF b0 = 237 THEN 159 ELSE 191)
               /\ IsCont(data[3])
            THEN 3 ELSE 0
        ELSE IF b0 >= 240 /\ b0 <= 244 THEN
            IF /\ n >= 4
               /\ data[2] >= (IF b0 = 240 THEN 144 ELSE 128)
               /\ data[2] <= (IF b0 = 244 THEN 143 ELSE 191)
               /\ IsCont(data[3])
               /\ IsCont(data[4])
            THEN 4 ELSE 0
        ELSE 0

Utf8CodePoint(data, k) ==
    IF k = 1 THEN data[1]
    ELSE IF k = 2 THEN (data[1] - 192) * 64 + (data[2] - 128)
    ELSE IF k = 3 THEN (data[1] - 224) * 4096 + (data[2] - 128) * 64 + (data[3] - 128)
    ELSE (data[1] - 240) * 262144 + (data[2] - 128) * 4096
         + (data[3] - 128) * 64 + (data[4] - 128)

\* std::str::from_utf8 / String::from_utf8: Ok(chars) or Err
RECURSIVE from_utf8(_)
from_utf8(data) ==
    IF data = <<>> THEN Ok(<<>>)
    ELSE LET k == Utf8SeqLen(data)
         IN  IF k = 0 THEN Err
             ELSE LET rest == from_utf8(SubSeq(data, k + 1, Len(data)))
                  IN  IF rest.ok THEN Ok(<<Utf8CodePoint(data, k)>> \o rest.val)
                      ELSE Err


(***************************************************************************)
(* CompressionType (monegle-core/src/types.rs) and the four encoders       *)
(***************************************************************************)
CompressionTypes == {"None", "Rle", "Delta", "Zlib", "Auto"}

\* NoneEncoder
none_encode(current, previous) == as_bytes(current)
none_decode(data, previous) == from_utf8(data)

\* A run counter without the u16::MAX cap of the inner while loop
rle_run_uncapped(chars, i, count) ==
    LET continues(c) == i + c <= Len(chars) /\ chars[i + c] = chars[i]
    IN  CHOOSE c \in count..Len(chars) :
            ~continues(c) /\ \A c2 \in count..(c - 1) : continues(c2)

\* RleEncoder::encode, the inner while loop from count: the count at which the
\* loop condition first fails (the length of the run starting at chars[i],
\* capped at u16::MAX)
rle_run(chars, i, count) ==
    LET continues(c) ==
            i + c <= Len(chars) /\ chars[i + c] = chars[i] /\ c < U16_MAX
    IN  CHOOSE c \in count..Len(chars) :
            ~continues(c) /\ \A c2 \in count..(c - 1) : continues(c2)

\* RleEncoder::encode, the outer while loop from chars[i] (1-based)
RECURSIVE rle_encode_from(_, _)
rle_encode_from(chars, i) ==
    IF i > Len(chars) THEN <<>>
    ELSE LET count == rle_run(chars, i, 1)
             char_bytes == encode_utf8(chars[i])
         IN  to_le_bytes_u16(count) \o <<Len(char_bytes)>> \o char_bytes
             \o rle_encode_from(chars, i + count)

rle_encode(current, previous) == rle_encode_from(current, 1)

\* RleEncoder::decode, the while loop at byte offset i (0-based)
RECURSIVE rle_decode_from(_, _, _)
rle_decode_from(data, i, result) ==
    IF ~(i + 3 < Len(data)) THEN Ok(result)
    ELSE LET count == from_le_bytes_u16(data[i + 1], data[i + 2])
             char_len == data[i + 3]
             j == i + 3
         IN  IF j + char_len > Len(data) THEN Err
             ELSE LET s == from_utf8(Slice(data, j, j + char_len))
                  IN  IF ~s.ok THEN Err
                      ELSE IF s.val = <<>> THEN Err
                      ELSE rle_decode_from(data, j + char_len,
                                           result \o Repeat(s.val[1], count))

rle_decode(data, previous) == rle_decode_from(data, 0, <<>>)

\* DeltaEncoder::encode: one change entry: [position(u32), char_len(u8), char_bytes...]
delta_entry(pos, curr_chars) ==
    to_le_bytes_u32(pos - 1) \o
    (IF pos <= Len(curr_chars)
     THEN LET char_bytes == encode_utf8(curr_chars[pos])
          IN  <<Len(char_bytes)>> \o char_bytes
     ELSE <<0>>)

RECURSIVE delta_entries(_, _, _)
delta_entries(curr_chars, prev_chars, i) ==
    IF i > Max(Len(curr_chars), Len(prev_chars)) THEN <<>>
    ELSE LET differs ==
               \/ i > Len(curr_chars)
               \/ i > Len(prev_chars)
               \/ curr_chars[i] # prev_chars[i]
         IN  (IF differs THEN delta_entry(i, curr_chars) ELSE <<>>)
             \o delta_entries(curr_chars, prev_chars, i + 1)

delta_change_count(curr_chars, prev_chars) ==
    Cardinality({i \in 1..Max(Len(curr_chars), Len(prev_chars)) :
                    \/ i > Len(curr_chars)
                    \/ i > Len(prev_chars)
                    \/ curr_chars[i] # prev_chars[i]})

\* DeltaEncoder::encode (lengths and counts stay far below 2^32, so the
\* `as u32` conversions do not wrap)
delta_encode(current, previous) ==
    LET prev == IF IsSome(previous) THEN Unwrap(previous) ELSE <<>>
    IN  to_le_bytes_u32(Len(current))
        \o to_le_bytes_u32(delta_change_count(current, prev))
        \o delta_entries(current, prev, 1)

\* A resize that pads but never truncates
resize_grow_only(v, len) ==
    IF Len(v) >= len THEN v ELSE v \o Repeat(32, len - Len(v))

\* Vec::resize(len, ' ')
resize(v, len) ==
    IF Len(v) >= len THEN SubSeq(v, 1, len) ELSE v \o Repeat(32, len - Len(v))

\* Vec<char>::resize(len, ' ') has to allocate len * size_of::<char>() bytes.
\* On a target whose usize has 32 bits a request above isize::MAX bytes
\* panics ("capacity overflow"); on a 64-bit target such a request (2 GiB
\* and more) is passed to the allocator, which serves it or fails, and a
\* failed allocation aborts the process (handle_alloc_error).
CHAR_SIZE == 4
resize_outcomes(len, pointer_width) ==
    IF len <= I32_MAX \div CHAR_SIZE THEN {"ok"}
    ELSE IF pointer_width = 32 THEN {"panic"}
    ELSE {"ok", "abort"}

\* DeltaEncoder::decode: the length handed to result.resize, 0 when the
\* payload is rejected before (data too short)
delta_requested_len(data) ==
    IF Len(data) < 8 THEN 0
    ELSE from_le_bytes_u32(data[1], data[2], data[3], data[4])

\* DeltaEncoder::decode, the for loop: n changes left, byte offset i (0-based)
RECURSIVE delta_apply(_, _, _, _)
delta_apply(data, i, n, result) ==
    IF n = 0 THEN Ok(result)
    ELSE IF i + 5 > Len(data) THEN Err
    ELSE LET pos == from_le_bytes_u32(data[i + 1], data[i + 2], data[i + 3], data[i + 4])
             char_len == data[i + 5]
             j == i + 5
         IN  IF char_len = 0 THEN delta_apply(data, j, n - 1, result)
             ELSE IF j + char_len > Len(data) THEN Err
             ELSE LET s == from_utf8(Slice(data, j, j + char_len))
                  IN  IF ~s.ok THEN Err
                      ELSE IF s.val = <<>> THEN Err
                      ELSE delta_apply(data, j + char_len, n - 1,
                               IF pos < Len(result)
                               THEN [result EXCEPT ![pos + 1] = s.val[1]]
                               ELSE result)

delta_decode(data, previous) ==
    IF Len(data) < 8 THEN Err
    ELSE LET len == from_le_bytes_u32(data[1], data[2], data[3], data[4])
             changes == from_le_bytes_u32(data[5], data[6], data[7], data[8])
             start == IF IsSome(previous) THEN Unwrap(previous) ELSE <<>>
         IN  delta_apply(data, 8, changes, resize(start, len))

(***************************************************************************)
(* ZlibCodec.  The stream format belongs to the flate2 library, not to     *)
(* this repository; it is modelled by its structure: the two-byte zlib     *)
(* header (CMF, FLG), a compressed body, and the Adler-32 checksum of the  *)
(* plain bytes (4 bytes, big-endian).  The body stands for DEFLATE at byte *)
(* granularity: a literal byte, or a back-reference <<ZMatch, len, dist>>  *)
(* for a repeat of at least ZMinMatch bytes (ZMatch is a byte that UTF-8   *)
(* never contains).  A stream that is cut short or corrupt is a decode     *)
(* error (spec 4.1).                                                       *)
(***************************************************************************)
ZCmf == 120
ZFlg == 156
ZMatch == 255
ZMinMatch == 4
ZMaxMatch == 254
AdlerMod == 65521

RECURSIVE adler_from(_, _, _, _)
adler_from(bytes, i, a, b) ==
    IF i > Len(bytes) THEN b * 65536 + a
    ELSE LET a2 == (a + bytes[i]) % AdlerMod
         IN  adler_from(bytes, i + 1, a2, (b + a2) % AdlerMod)

to_be_bytes_u32(n) ==
    <<(n \div 16777216) % 256, (n \div 65536) % 256, (n \div 256) % 256, n % 256>>

adler32(bytes) == to_be_bytes_u32(adler_from(bytes, 1, 1, 0))

\* how many bytes from position i repeat the bytes dist earlier
RECURSIVE match_len(_, _, _, _)
match_len(bytes, i, dist, l) ==
    IF i + l <= Len(bytes) /\ l < ZMaxMatch /\ bytes[i + l] = bytes[i + l - dist]
    THEN match_len(bytes, i, dist, l + 1)
    ELSE l

RECURSIVE deflate_from(_, _)
deflate_from(bytes, i) ==
    IF i > Len(bytes) THEN <<>>
    ELSE LET dists == {d \in 1..Min(i - 1, ZMaxMatch) :
                          match_len(bytes, i, d, 0) >= ZMinMatch}
         IN  IF dists = {} THEN <<bytes[i]>> \o deflate_from(bytes, i + 1)
             ELSE LET lens == [d \in dists |-> match_len(bytes, i, d, 0)]
                      l == CHOOSE x \in {lens[d] : d \in dists} :
                               \A d \in dists : lens[d] <= x
                      best == SetMin({d \in dists : lens[d] = l})
                  IN  <<ZMatch, l, best>> \o deflate_from(bytes, i + l)

zlib_encode(current, previous) ==
    LET bytes == as_bytes(current)
    IN  <<ZCmf, ZFlg>> \o deflate_from(bytes, 1) \o adler32(bytes)

RECURSIVE copy_match(_, _, _)
copy_match(out, dist, l) ==
    IF l = 0 THEN out ELSE copy_match(Append(out, out[Len(out) + 1 - dist]), dist, l - 1)

RECURSIVE inflate_from(_, _, _)
inflate_from(body, i, out) ==
    IF i > Len(body) THEN Ok(out)
    ELSE IF body[i] # ZMatch THEN inflate_from(body, i + 1, Append(out, body[i]))
    ELSE IF i + 2 > Len(body) THEN Err
    ELSE LET l == body[i + 1]
             dist == body[i + 2]
         IN  IF l < 1 \/ dist < 1 \/ dist > Len(out) THEN Err
             ELSE inflate_from(body, i + 3, copy_match(out, dist, l))

zlib_header_ok(cmf, flg) ==
    /\ cmf % 16 = 8
    /\ cmf \div 16 <= 7
    /\ (cmf * 256 + flg) % 31 = 0
    /\ (flg \div 32) % 2 = 0

zlib_decode(data, previous) ==
    IF Len(data) < 6 THEN Err
    ELSE IF ~zlib_header_ok(data[1], data[2]) THEN Err
    ELSE LET decoded == inflate_from(SubSeq(data, 3, Len(data) - 4), 1, <<>>)
         IN  IF ~decoded.ok THEN Err
             ELSE IF adler32(decoded.val) # SubSeq(data, Len(data) - 3, Len(data)) THEN Err
             ELSE from_utf8(decoded.val)

(***************************************************************************)
(* HybridEncoder, get_encoder and decode_frame                             *)
(***************************************************************************)
\* CompressedFrame (types.rs)
CompressedFrame(kind, data, frame_number, is_keyframe) ==
    [compression_type |-> kind, data |-> data,
     frame_number |-> frame_number, is_keyframe |-> is_keyframe]

\* An encode_best in which a later candidate of equal length replaces the best so far
encode_best_last_wins(current, previous) ==
    LET none_result == none_encode(current, previous)
        rle_result == rle_encode(current, previous)
        delta_result == IF IsSome(previous) THEN delta_encode(current, previous) ELSE <<>>
        zlib_result == zlib_encode(current, previous)
        best0 == <<"None", none_result>>
        best1 == IF Len(rle_result) <= Len(best0[2]) THEN <<"Rle", rle_result>> ELSE best0
        best2 == IF delta_result # <<>> /\ Len(delta_result) <= Len(best1[2])
                 THEN <<"Delta", delta_result>> ELSE best1
        best3 == IF Len(zlib_result) <= Len(best2[2]) THEN <<"Zlib", zlib_result>> ELSE best2
    IN  CompressedFrame(best3[1], best3[2], 0, ~IsSome(previous))

\* An encode_best that starts from the RunLength result instead of the None result
encode_best_skips_none(current, previous) ==
    LET rle_result == rle_encode(current, previous)
        delta_result == IF IsSome(previous) THEN delta_encode(current, previous) ELSE <<>>
        zlib_result == zlib_encode(current, previous)
        best1 == <<"Rle", rle_result>>
        best2 == IF delta_result # <<>> /\ Len(delta_result) < Len(best1[2])
                 THEN <<"Delta", delta_result>> ELSE best1
        best3 == IF Len(zlib_result) < Len(best2[2]) THEN <<"Zlib", zlib_result>> ELSE best2
    IN  CompressedFrame(best3[1], best3[2], 0, ~IsSome(previous))

\* HybridEncoder::encode_best
encode_best(current, previous) ==
    LET none_result == none_encode(current, previous)
        rle_result == rle_encode(current, previous)
        delta_result == IF IsSome(previous) THEN delta_encode(current, previous) ELSE <<>>
        zlib_result == zlib_encode(current, previous)
        best0 == <<"None", none_result>>
        best1 == IF Len(rle_result) < Len(best0[2]) THEN <<"Rle", rle_result>> ELSE best0
        best2 == IF delta_result # <<>> /\ Len(delta_result) < Len(best1[2])
                 THEN <<"Delta", delta_result>> ELSE best1
        best3 == IF Len(zlib_result) < Len(best2[2]) THEN <<"Zlib", zlib_result>> ELSE best2
    IN  CompressedFrame(best3[1], best3[2], 0, ~IsSome(previous))

\* impl FrameEncoder for HybridEncoder
hybrid_encode(current, previous) == encode_best(current, previous).data
hybrid_decode(data, previous) == zlib_decode(data, previous)

\* get_encoder(compression_type).encode(current, previous)
encoder_encode(compression_type, current, previous) ==
    CASE compression_type = "None" -> none_encode(current, previous)
      [] compression_type = "Rle" -> rle_encode(current, previous)
      [] compression_type = "Delta" -> delta_encode(current, previous)
      [] compression_type = "Zlib" -> zlib_encode(current, previous)
      [] compression_type = "Auto" -> hybrid_encode(current, previous)

\* get_encoder(compression_type).decode(data, previous)
encoder_decode(compression_type, data, previous) ==
    CASE compression_type = "None" -> none_decode(data, previous)
      [] compression_type = "Rle" -> rle_decode(data, previous)
      [] compression_type = "Delta" -> delta_decode(data, previous)
      [] compression_type = "Zlib" -> zlib_decode(data, previous)
      [] compression_type = "Auto" -> hybrid_decode(data, previous)

\* codec.rs decode_frame
decode_frame(frame, previous) ==
    encoder_decode(frame.compression_type, frame.data, previous)

(***************************************************************************)
(* FrameBatch (monegle-core/src/types.rs) and its serialized size          *)
(***************************************************************************)
STREAM_ID_LEN == 32

\* StreamMetadata: what the sender's configuration fixes for a stream
StreamMetadata(compression_type, frames_per_batch) ==
    [fps |-> 5, width |-> 10, height |-> 10, compression_type |-> compression_type,
     character_set |-> "Standard", color_mode |-> "None",
     frames_per_batch |-> frames_per_batch]

\* bincode (fixed-width integers, u64 length prefixes, u32 enum tags):
\* fps u8, width u16, height u16, three enum tags, frames_per_batch u8
metadata_size(metadata) == 1 + 2 + 2 + 4 + 4 + 4 + 1

\* compression_type tag, data length prefix and bytes, frame_number u64, is_keyframe
compressed_frame_size(frame) == 4 + 8 + Len(frame.data) + 8 + 1

RECURSIVE frames_size(_)
frames_size(frames) ==
    IF frames = <<>> THEN 0
    ELSE compressed_frame_size(Head(frames)) + frames_size(Tail(frames))

\* FrameBatch::size_bytes: the length of encode_to_bytes: stream_id, sequence u64,
\* metadata, frames (length prefix and elements), timestamp u64
size_bytes(batch) ==
    STREAM_ID_LEN + 8 + metadata_size(batch.metadata) + 8 + frames_size(batch.frames) + 8

(***************************************************************************)
(* FrameBatch::encode_to_bytes and decode_from_bytes: bincode 1 with its   *)
(* default options (little-endian fixed-width integers, u64 length         *)
(* prefixes, u32 variant indices, a bool as one byte, a [u8; 32] as its 32 *)
(* bytes, trailing bytes ignored by deserialize).  On the wire a u64 is    *)
(* held as its four 16-bit limbs, least significant first, so that every   *)
(* u64 value has a representation.                                         *)
(***************************************************************************)
CompressionVariants == <<"None", "Rle", "Delta", "Zlib", "Auto">>
CharacterSetVariants == <<"Standard", "Dense", "Blocks", "Detailed">>
ColorModeVariants == <<"None", "Purple", "Blue", "Green", "Rgb">>

\* the u64 with a value below 2^31
u64(n) == <<n % 65536, n \div 65536, 0, 0>>

\* A u64 written most significant byte first
to_be_bytes_u64(v) ==
    <<v[4] \div 256, v[4] % 256, v[3] \div 256, v[3] % 256,
      v[2] \div 256, v[2] % 256, v[1] \div 256, v[1] % 256>>

to_le_bytes_u64(v) ==
    to_le_bytes_u16(v[1]) \o to_le_bytes_u16(v[2]) \o
    to_le_bytes_u16(v[3]) \o to_le_bytes_u16(v[4])

\* the u64 at byte offset i (0-based) of data
from_le_bytes_u64(data, i) ==
    <<from_le_bytes_u16(data[i + 1], data[i + 2]), from_le_bytes_u16(data[i + 3], data[i + 4]),
      from_le_bytes_u16(data[i + 5], data[i + 6]), from_le_bytes_u16(data[i + 7], data[i + 8])>>

\* a length prefix as a number; I32_MAX stands for the lengths from 2^31 up
len_of_u64(v) ==
    IF v[3] # 0 \/ v[4] # 0 \/ v[2] >= 32768 THEN I32_MAX ELSE v[1] + 65536 * v[2]

\* serde: a unit variant is written as its index, a u32
variant_index(variants, v) == (CHOOSE i \in 1..Len(variants) : variants[i] = v) - 1
serialize_variant(variants, v) == to_le_bytes_u32(variant_index(variants, v))

serialize_metadata(m) ==
    <<m.fps>> \o to_le_bytes_u16(m.width) \o to_le_bytes_u16(m.height) \o
    serialize_variant(CompressionVariants, m.compression_type) \o
    serialize_variant(CharacterSetVariants, m.character_set) \o
    serialize_variant(ColorModeVariants, m.color_mode) \o
    <<m.frames_per_batch>>

serialize_frame(f) ==
    serialize_variant(CompressionVariants, f.compression_type) \o
    to_le_bytes_u64(u64(Len(f.data))) \o f.data \o
    to_le_bytes_u64(f.frame_number) \o
    <<IF f.is_keyframe THEN 1 ELSE 0>>

RECURSIVE serialize_frames(_)
serialize_frames(frames) ==
    IF frames = <<>> THEN <<>>
    ELSE serialize_frame(Head(frames)) \o serialize_frames(Tail(frames))

\* FrameBatch::encode_to_bytes: bincode::serialize(self)
encode_to_bytes(batch) ==
    batch.stream_id \o to_le_bytes_u64(batch.sequence) \o
    serialize_metadata(batch.metadata) \o
    to_le_bytes_u64(u64(Len(batch.frames))) \o serialize_frames(batch.frames) \o
    to_le_bytes_u64(batch.timestamp)

\* a variant index at byte offset i: Ok(variant), or Err for an unknown index
deserialize_variant(variants, data, i) ==
    LET index == from_le_bytes_u32(data[i + 1], data[i + 2], data[i + 3], data[i + 4])
    IN  IF index < Len(variants) THEN Ok(variants[index + 1]) ELSE Err

\* one CompressedFrame at byte offset i: [ok, val, next]
deserialize_frame(data, i) ==
    LET failed == [ok |-> FALSE, val |-> <<>>, next |-> i]
    IN  IF i + 12 > Len(data) THEN failed
        ELSE LET kind == deserialize_variant(CompressionVariants, data, i)
                 n == len_of_u64(from_le_bytes_u64(data, i + 4))
                 j == i + 12
             IN  IF ~kind.ok THEN failed
                 ELSE IF n > Len(data) - j THEN failed
                 ELSE IF j + n + 9 > Len(data) THEN failed
                 ELSE IF data[j + n + 9] \notin {0, 1} THEN failed
                 ELSE [ok |-> TRUE,
                       val |-> [compression_type |-> kind.val,
                                data |-> Slice(data, j, j + n),
                                frame_number |-> from_le_bytes_u64(data, j + n),
                                is_keyframe |-> data[j + n + 9] = 1],
                       next |-> j + n + 9]

\* n CompressedFrames from byte offset i: [ok, val, next]
RECURSIVE deserialize_frames(_, _, _, _)
deserialize_frames(data, i, n, frames) ==
    IF n = 0 THEN [ok |-> TRUE, val |-> frames, next |-> i]
    ELSE LET f == deserialize_frame(data, i)
         IN  IF ~f.ok THEN [ok |-> FALSE, val |-> <<>>, next |-> i]
             ELSE deserialize_frames(data, f.next, n - 1, Append(frames, f.val))

\* FrameBatch::decode_from_bytes: bincode::deserialize(data)
decode_from_bytes(data) ==
    IF Len(data) < STREAM_ID_LEN + 8 + 17 + 8 THEN Err
    ELSE LET m == STREAM_ID_LEN + 8
             compression_type == deserialize_variant(CompressionVariants, data, m + 5)
             character_set == deserialize_variant(CharacterSetVariants, data, m + 9)
             color_mode == deserialize_variant(ColorModeVariants, data, m + 13)
             count == len_of_u64(from_le_bytes_u64(data, m + 18))
             frames == deserialize_frames(data, m + 26, count, <<>>)
         IN  IF ~compression_type.ok \/ ~character_set.ok \/ ~color_mode.ok THEN Err
             ELSE IF ~frames.ok THEN Err
             ELSE IF frames.next + 8 > Len(data) THEN Err
             ELSE Ok([stream_id |-> Slice(data, 0, STREAM_ID_LEN),
                      sequence |-> from_le_bytes_u64(data, STREAM_ID_LEN),
                      metadata |->
                          [fps |-> data[m + 1],
                           width |-> from_le_bytes_u16(data[m + 2], data[m + 3]),
                           height |-> from_le_bytes_u16(data[m + 4], data[m + 5]),
                           compression_type |-> compression_type.val,
                           character_set |-> character_set.val,
                           color_mode |-> color_mode.val,
                           frames_per_batch |-> data[m + 18]],
                      frames |-> frames.val,
                      timestamp |-> from_le_bytes_u64(data, frames.next)])

(***************************************************************************)
(* FrameBatcher (monegle-sender/src/batcher.rs).  An operation is a        *)
(* function from the batcher to [b: the batcher after, out: Option<batch>].*)
(* The wall-clock timestamp of a batch is not modelled (it is a u64 of     *)
(* fixed serialized size), nor is the 32-byte value of the stream id.      *)
(***************************************************************************)
\* FrameBatcher::new
FrameBatcher_new(metadata, max_batch_size, keyframe_interval) ==
    [metadata |-> metadata,
     frames_per_batch |-> metadata.frames_per_batch,
     max_batch_size |-> max_batch_size,
     keyframe_interval |-> keyframe_interval,
     compression_type |-> metadata.compression_type,
     current_batch |-> <<>>,
     sequence_counter |-> 0,
     frame_counter |-> 0,
     previous_frame |-> None]

FrameBatch(b) ==
    [stream_id |-> "stream", sequence |-> b.sequence_counter, metadata |-> b.metadata,
     frames |-> b.current_batch, timestamp |-> 0]

\* A compress_frame that numbers a frame by its place in the pending batch
\* instead of the stream-wide frame counter
compress_frame_batch_index(b, frame, previous, is_keyframe) ==
    CompressedFrame(b.compression_type,
                    encoder_encode(b.compression_type, frame, previous),
                    Len(b.current_batch), is_keyframe)

\* FrameBatcher::compress_frame
compress_frame(b, frame, previous, is_keyframe) ==
    CompressedFrame(b.compression_type,
                    encoder_encode(b.compression_type, frame, previous),
                    b.frame_counter, is_keyframe)

\* An estimate_batch_size that counts the frames and leaves out the batch header
estimate_batch_size_frames_only(b) == frames_size(b.current_batch)

\* FrameBatcher::estimate_batch_size
estimate_batch_size(b) == size_bytes(FrameBatch(b))

\* A finalize_batch without the guard on an empty pending list
finalize_batch_unguarded(b) ==
    [b |-> [b EXCEPT !.sequence_counter = @ + 1, !.current_batch = <<>>],
     out |-> Some(FrameBatch(b))]

\* A finalize_batch that forgets to advance the sequence counter
finalize_batch_same_sequence(b) ==
    IF b.current_batch = <<>> THEN [b |-> b, out |-> None]
    ELSE [b |-> [b EXCEPT !.current_batch = <<>>], out |-> Some(FrameBatch(b))]

\* FrameBatcher::finalize_batch
finalize_batch(b) ==
    IF b.current_batch = <<>> THEN [b |-> b, out |-> None]
    ELSE [b |-> [b EXCEPT !.sequence_counter = @ + 1, !.current_batch = <<>>],
          out |-> Some(FrameBatch(b))]

\* A count check that emits only once the pending list exceeds the target
finalize_if_over(b) ==
    IF Len(b.current_batch) > b.frames_per_batch THEN finalize_batch(b)
    ELSE [b |-> b, out |-> None]

\* FrameBatcher::add_frame, lines 107-116: emit when the target frame count is reached
finalize_if_full(b) ==
    IF Len(b.current_batch) >= b.frames_per_batch THEN finalize_batch(b)
    ELSE [b |-> b, out |-> None]

\* An add_frame that encodes every frame, keyframes too, against the previous frame
add_frame_no_keyframe_reference(b, ascii_frame) ==
    LET is_keyframe == b.frame_counter % b.keyframe_interval = 0
        compressed == compress_frame(b, ascii_frame, b.previous_frame, is_keyframe)
        b1 == [b EXCEPT !.previous_frame = Some(ascii_frame)]
    IN  IF b1.current_batch # <<>>
        THEN LET pushed == [b1 EXCEPT !.current_batch = Append(@, compressed)]
                 estimated_size == estimate_batch_size(pushed)
             IN  IF estimated_size > b.max_batch_size
                 THEN LET popped == [pushed EXCEPT !.current_batch =
                                         SubSeq(@, 1, Len(@) - 1)]
                          fin == finalize_batch(popped)
                      IN  [b |-> [fin.b EXCEPT !.current_batch = Append(@, compressed),
                                               !.frame_counter = @ + 1],
                           out |-> fin.out]
                 ELSE finalize_if_full([pushed EXCEPT !.frame_counter = @ + 1])
        ELSE finalize_if_full([b1 EXCEPT !.current_batch = Append(@, compressed),
                                         !.frame_counter = @ + 1])

\* An add_frame that records the frame as the new delta reference only when the
\* frame joins the pending list, not when it is deferred to the next batch
add_frame_stale_reference(b, ascii_frame) ==
    LET is_keyframe == b.frame_counter % b.keyframe_interval = 0
        compressed == compress_frame(b, ascii_frame,
                                     IF is_keyframe THEN None ELSE b.previous_frame,
                                     is_keyframe)
        b1 == [b EXCEPT !.previous_frame = Some(ascii_frame)]
    IN  IF b.current_batch # <<>>
        THEN LET pushed == [b1 EXCEPT !.current_batch = Append(@, compressed)]
                 estimated_size == estimate_batch_size(pushed)
             IN  IF estimated_size > b.max_batch_size
                 THEN LET fin == finalize_batch(b)
                      IN  [b |-> [fin.b EXCEPT !.current_batch = Append(@, compressed),
                                               !.frame_counter = @ + 1],
                           out |-> fin.out]
                 ELSE finalize_if_full([pushed EXCEPT !.frame_counter = @ + 1])
        ELSE finalize_if_full([b1 EXCEPT !.current_batch = Append(@, compressed),
                                         !.frame_counter = @ + 1])

\* FrameBatcher::add_frame
add_frame(b, ascii_frame) ==
    LET is_keyframe == b.frame_counter % b.keyframe_interval = 0
        compressed == compress_frame(b, ascii_frame,
                                     IF is_keyframe THEN None ELSE b.previous_frame,
                                     is_keyframe)
        b1 == [b EXCEPT !.previous_frame = Some(ascii_frame)]
    IN  IF b1.current_batch # <<>>
        THEN LET pushed == [b1 EXCEPT !.current_batch = Append(@, compressed)]
                 estimated_size == estimate_batch_size(pushed)
             IN  IF estimated_size > b.max_batch_size
                 THEN LET popped == [pushed EXCEPT !.current_batch =
                                         SubSeq(@, 1, Len(@) - 1)]
                          fin == finalize_batch(popped)
                      IN  [b |-> [fin.b EXCEPT !.current_batch = Append(@, compressed),
                                               !.frame_counter = @ + 1],
                           out |-> fin.out]
                 ELSE finalize_if_full([pushed EXCEPT !.frame_counter = @ + 1])
        ELSE finalize_if_full([b1 EXCEPT !.current_batch = Append(@, compressed),
                                         !.frame_counter = @ + 1])

\* FrameBatcher::flush
\* A flush that emits the pending frames and keeps them pending
flush_keeps_pending(b) ==
    IF b.current_batch = <<>> THEN [b |-> b, out |-> None]
    ELSE [b |-> [b EXCEPT !.sequence_counter = @ + 1], out |-> Some(FrameBatch(b))]

\* A flush that drops the pending frames instead of emitting them
flush_discards(b) == [b |-> [b EXCEPT !.current_batch = <<>>], out |-> None]

\* FrameBatcher::flush
flush(b) == finalize_batch(b)

(***************************************************************************)
(* FrameDecoder (monegle-receiver/src/decoder.rs)                          *)
(***************************************************************************)
FrameDecoder_new == [previous_frame |-> None]

\* A decode_frame that forgets the held previous frame when decoding fails
decoder_decode_frame_clears_on_error(d, frame) ==
    LET decoded == decode_frame(frame,
                       IF frame.is_keyframe THEN None ELSE d.previous_frame)
    IN  IF ~decoded.ok THEN [d |-> [d EXCEPT !.previous_frame = None], res |-> Err]
        ELSE [d |-> [d EXCEPT !.previous_frame = Some(decoded.val)], res |-> decoded]

\* FrameDecoder::decode_frame: [d: the decoder after, res: Result<String>]
decoder_decode_frame(d, frame) ==
    LET decoded == decode_frame(frame,
                       IF frame.is_keyframe THEN None ELSE d.previous_frame)
    IN  IF ~decoded.ok THEN [d |-> d, res |-> Err]
        ELSE [d |-> [d EXCEPT !.previous_frame = Some(decoded.val)], res |-> decoded]

\* A decode_batch loop that stops at the first frame that fails to decode
RECURSIVE decode_frames_from_stops(_, _, _, _)
decode_frames_from_stops(d, frames, i, decoded_frames) ==
    IF i > Len(frames) THEN [d |-> d, frames |-> decoded_frames]
    ELSE LET r == decoder_decode_frame(d, frames[i])
         IN  IF r.res.ok
             THEN decode_frames_from_stops(r.d, frames, i + 1,
                                           Append(decoded_frames, r.res.val))
             ELSE [d |-> r.d, frames |-> decoded_frames]

\* FrameDecoder::decode_batch, the for loop over frames[i..]:
\* [d: the decoder after, frames: decoded_frames]
RECURSIVE decode_frames_from(_, _, _, _)
decode_frames_from(d, frames, i, decoded_frames) ==
    IF i > Len(frames) THEN [d |-> d, frames |-> decoded_frames]
    ELSE LET r == decoder_decode_frame(d, frames[i])
         IN  decode_frames_from(r.d, frames, i + 1,
                 IF r.res.ok THEN Append(decoded_frames, r.res.val) ELSE decoded_frames)

decode_batch(d, batch) == decode_frames_from(d, batch.frames, 1, <<>>)

(***************************************************************************)
(* FrameBuffer (monegle-receiver/src/buffer.rs).  buffer is the HashMap    *)
(* sequence -> frames, a function whose domain is the set of buffered keys.*)
(***************************************************************************)
FrameBuffer_new(capacity) ==
    [buffer |-> <<>>, current_sequence |-> 0, current_frame_index |-> 0,
     capacity |-> capacity, frame_count |-> 0]

keys(buffer) == DOMAIN buffer

\* HashMap::remove
map_remove(buffer, k) == [x \in keys(buffer) \ {k} |-> buffer[x]]

\* HashMap::insert
map_insert(buffer, k, v) == [x \in keys(buffer) \cup {k} |-> IF x = k THEN v ELSE buffer[x]]

\* An add_batch that evicts the largest buffered sequence instead of the smallest
add_batch_evicts_largest(fb, sequence, frames) ==
    LET evicted ==
            IF Cardinality(keys(fb.buffer)) >= fb.capacity /\ keys(fb.buffer) # {}
            THEN LET seq == CHOOSE x \in keys(fb.buffer) : \A y \in keys(fb.buffer) : y <= x
                 IN  [fb EXCEPT !.frame_count = @ - Len(fb.buffer[seq]),
                                !.buffer = map_remove(@, seq)]
            ELSE fb
    IN  [evicted EXCEPT !.frame_count = @ + Len(frames),
                        !.buffer = map_insert(@, sequence, frames)]

\* An add_batch that inserts without evicting
add_batch_no_eviction(fb, sequence, frames) ==
    [fb EXCEPT !.frame_count = @ + Len(frames),
               !.buffer = map_insert(@, sequence, frames)]

\* FrameBuffer::add_batch
add_batch(fb, sequence, frames) ==
    LET evicted ==
            IF Cardinality(keys(fb.buffer)) >= fb.capacity /\ keys(fb.buffer) # {}
            THEN LET seq == SetMin(keys(fb.buffer))
                 IN  [fb EXCEPT !.frame_count = @ - Len(fb.buffer[seq]),
                                !.buffer = map_remove(@, seq)]
            ELSE fb
    IN  [evicted EXCEPT !.frame_count = @ + Len(frames),
                        !.buffer = map_insert(@, sequence, frames)]

NextOk(frame) == [ok |-> TRUE, val |-> frame, err |-> ""]
NextErr(e) == [ok |-> FALSE, val |-> "", err |-> e]

\* FrameBuffer::next_frame, lines 125-133: return the frame at the cursor
frame_at_cursor(fb, warn) ==
    IF fb.current_sequence \in keys(fb.buffer)
       /\ fb.current_frame_index < Len(fb.buffer[fb.current_sequence])
    THEN [fb |-> [fb EXCEPT !.current_frame_index = @ + 1],
          res |-> NextOk(fb.buffer[fb.current_sequence][fb.current_frame_index + 1]),
          warn |-> warn]
    ELSE [fb |-> fb, res |-> NextErr("Frame not found"), warn |-> warn]

\* A next_sequence without the check for an empty frame list
next_sequence_unchecked(fb) ==
    LET old_sequence == fb.current_sequence
        moved == [fb EXCEPT !.current_sequence = @ + 1, !.current_frame_index = 0]
        min_seq == SetMin(keys(fb.buffer))
        jumped == IF moved.current_sequence \in keys(fb.buffer) THEN moved
                  ELSE [moved EXCEPT !.current_sequence = min_seq]
        warn == moved.current_sequence \notin keys(fb.buffer) /\ min_seq < old_sequence
    IN  frame_at_cursor(jumped, warn)

\* FrameBuffer::next_frame, lines 96-123: the current sequence is exhausted
next_sequence(fb) ==
    LET old_sequence == fb.current_sequence
        moved == [fb EXCEPT !.current_sequence = @ + 1, !.current_frame_index = 0]
        min_seq == SetMin(keys(fb.buffer))
        jumped == IF moved.current_sequence \in keys(fb.buffer) THEN moved
                  ELSE [moved EXCEPT !.current_sequence = min_seq]
        warn == moved.current_sequence \notin keys(fb.buffer) /\ min_seq < old_sequence
    IN  IF jumped.buffer[jumped.current_sequence] = <<>>
        THEN [fb |-> jumped, res |-> NextErr("Empty frame batch"), warn |-> warn]
        ELSE frame_at_cursor(jumped, warn)

\* A next_frame that keeps current_frame_index when it jumps to the earliest sequence
next_frame_keeps_index(fb) ==
    IF fb.current_sequence \notin keys(fb.buffer) /\ keys(fb.buffer) = {}
    THEN [fb |-> fb, res |-> NextErr("Buffer is empty"), warn |-> FALSE]
    ELSE LET found == IF fb.current_sequence \notin keys(fb.buffer)
                      THEN [fb EXCEPT !.current_sequence = SetMin(keys(fb.buffer))]
                      ELSE fb
         IN  IF found.current_frame_index >= Len(found.buffer[found.current_sequence])
             THEN next_sequence(found)
             ELSE frame_at_cursor(found, FALSE)

\* FrameBuffer::next_frame: [fb: the buffer after, res: Result<String>,
\* warn: whether the backward-jump warning was logged]
next_frame(fb) ==
    IF fb.current_sequence \notin keys(fb.buffer) /\ keys(fb.buffer) = {}
    THEN [fb |-> fb, res |-> NextErr("Buffer is empty"), warn |-> FALSE]
    ELSE LET found == IF fb.current_sequence \notin keys(fb.buffer)
                      THEN [fb EXCEPT !.current_sequence = SetMin(keys(fb.buffer)),
                                      !.current_frame_index = 0]
                      ELSE fb
         IN  IF found.current_frame_index >= Len(found.buffer[found.current_sequence])
             THEN next_sequence(found)
             ELSE frame_at_cursor(found, FALSE)

\* FrameBuffer::stats
stats(fb) ==
    [sequences |-> Cardinality(keys(fb.buffer)), frames |-> fb.frame_count,
     current_sequence |-> fb.current_sequence]

(***************************************************************************)
(* BufferController::start_buffering_loop (monegle-receiver/src/buffer.rs) *)
(***************************************************************************)
\* A Mutex whose lock() completes whether or not the lock is held
mutex_free_unchecked(s) == TRUE

\* tokio::sync::Mutex: lock().await completes only while no guard is alive
mutex_free(s) == s.locked = "none"

\* lines 247-253, with rates in units of half a frame per second: half the
\* target below 10 buffered frames, 1.5 times above 50, the target otherwise
adaptive_fps_x2(target_fps, buffer_depth) ==
    IF buffer_depth < 10 THEN target_fps
    ELSE IF buffer_depth > 50 THEN 3 * target_fps
    ELSE 2 * target_fps

(***************************************************************************)
(* playback_task (monegle-receiver/src/bin/adaptive-receiver.rs).  One     *)
(* operator per branch of the select!, each followed by the resume check   *)
(* that ends the loop body.  p is the task's locals.                       *)
(***************************************************************************)
playback_new(initial_buffer_size, resume_buffer_size) ==
    [buffer |-> <<>>, is_playing |-> FALSE, frames_displayed |-> 0,
     current_frame |-> None, exited |-> FALSE,
     initial_buffer_size |-> initial_buffer_size,
     resume_buffer_size |-> resume_buffer_size]

\* lines 235-239: resume playback when the buffer reaches the resume threshold
resume_check(p) ==
    IF ~p.is_playing /\ Len(p.buffer) >= p.resume_buffer_size
    THEN [p EXCEPT !.is_playing = TRUE]
    ELSE p

\* lines 172-185: Some(frame) = decoded_rx.recv()
on_frame(p, frame) ==
    LET pushed == [p EXCEPT !.buffer = Append(@, frame)]
    IN  resume_check(
            IF ~pushed.is_playing /\ Len(pushed.buffer) >= pushed.initial_buffer_size
            THEN [pushed EXCEPT !.is_playing = TRUE]
            ELSE pushed)

\* lines 188-227: the frame interval elapsed while is_playing
on_tick(p) ==
    resume_check(
        IF p.buffer # <<>>
        THEN LET frame == Head(p.buffer)
                 popped == [p EXCEPT !.buffer = Tail(@),
                                     !.current_frame = Some(frame),
                                     !.frames_displayed = @ + 1]
             IN  IF popped.buffer = <<>> THEN [popped EXCEPT !.is_playing = FALSE]
                 ELSE popped
        ELSE [p EXCEPT !.is_playing = FALSE])

(***************************************************************************)
(* State.                                                                  *)
(*   batcher: the sender's FrameBatcher; inputs: the frames given to       *)
(*     add_frame so far; emitted: the batches add_frame and flush returned *)
(*   decoder: the receiver's FrameDecoder; delivered: how many emitted     *)
(*     batches have left the transport; decoded: what decode_batch         *)
(*     returned for each of them; lost: the batches (by position in        *)
(*     emitted) that the transport lost, for which decoded holds <<>>      *)
(*   fb: the FrameBuffer; fb_last: the last call made on it and its        *)
(*     outcome; adds: the add_batch calls so far, [sequence, frames] each; *)
(*     played: the cursors (seq, idx) of the frames returned by the last   *)
(*     two next_frame calls if both succeeded, by the last one if only it  *)
(*     succeeded, <<>> if it failed or none was made                       *)
(*   pb: the locals of playback_task; chan: the decoded-frame channel      *)
(*     [queue, closed]; sent: the number of frames sent into it            *)
(*   codec: one use of the codec on its own: the call made (stage, kind,   *)
(*     current, previous), the CompressedFrame it produced and, once that  *)
(*     frame was decoded, the result                                       *)
(*   bloop: the sender's batching loop (start_batching_loop): its position *)
(*     pc, the inbound frame channel rx and the outbound batch channel tx  *)
(*     ([queue, closed] each), the batch it is about to send, the batches  *)
(*     it sent                                                             *)
(*   shared: the Mutex around the BufferController's FrameBuffer and the   *)
(*     positions of the feeder task and of the playback loop               *)
(*   rx: the receiver's decoder task (main.rs): last_metadata, the         *)
(*     metadata it logged, the display's configuration, the metadata of    *)
(*     the batches received                                                *)
(*   wire: one FrameBatch on its way through encode_to_bytes and           *)
(*     decode_from_bytes                                                   *)
(***************************************************************************)
VARIABLES batcher, inputs, emitted, decoder, delivered, decoded, lost,
          fb, fb_last, adds, played, pb, chan, sent, codec,
          bloop, shared, rx, wire

vars == <<batcher, inputs, emitted, decoder, delivered, decoded, lost,
          fb, fb_last, adds, played, pb, chan, sent, codec,
          bloop, shared, rx, wire>>
senderVars == <<batcher, inputs, emitted, decoder, delivered, decoded, lost>>
bufferVars == <<fb, fb_last, adds, played>>
playbackVars == <<pb, chan, sent>>
codecVars == <<codec>>
restVars == <<bloop, shared, rx, wire>>

\* The inputs and configurations explored
MaxFrames == 3
MaxLossyFrames == 4
MaxAdds == 3
MaxSent == 4
MaxRun == 65536
MaxLoopFrames == 3
FrameChannelCap == 2
BatchChannelCap == 1
MaxSharedAdds == 2
TargetFps == 15
MaxMetaBatches == 3
MaxShortLen == 4
MaxFrameChars == 70000
MaxWireFrames == 2

Frames ==
    { <<97, 98>>,                                            \* "ab"
      <<97, 233>>,                                           \* "a" and U+00E9
      <<97, 97, 97, 97, 97, 97>>,                            \* "aaaaaa"
      <<97, 98, 97, 98, 97, 98, 97, 98, 97, 98, 97, 98>> }   \* "abababababab"
FramesPerBatch == {0, 1, 3}
MaxBatchSizes == {100, 125, 1000}
KeyframeIntervals == {2, 3}

\* frames of different lengths that agree in some positions and differ in others
LossyFrames ==
    { <<97, 98>>,                                            \* "ab"
      <<97, 233, 99>>,                                       \* "a", U+00E9, "c"
      <<98>> }                                               \* "b"

SeqNos == {1, 2, 3, 5, 7}
FrameLists == {<<>>, <<"a", "b">>, <<"c">>}
Capacities == {0, 1, 2, 3}

Thresholds == {0, 1, 2, 3}

\* frames for the codec on its own: the empty frame, characters of 1 to 4 bytes,
\* runs, spaces, frames that are prefixes of one another
CodecFrames ==
    { <<>>,
      <<97>>,                                                \* "a"
      <<97, 98>>,                                            \* "ab"
      <<97, 233, 99>>,                                       \* "a", U+00E9, "c"
      <<8364, 98>>,                                          \* U+20AC, "b"
      <<128512>>,                                            \* U+1F600
      <<32, 32>>,                                            \* two spaces
      <<97, 97, 97, 97>>,                                    \* "aaaa"
      <<97, 97, 97, 97, 97, 97>>,                            \* "aaaaaa"
      <<97, 98, 97, 98, 97, 98, 97, 98, 97, 98, 97, 98>> }   \* "abababababab"

\* frames with a run of one character as long as, and longer than, u16::MAX
LongRunFrames ==
    { Repeat(97, U16_MAX),
      Repeat(97, MaxRun),
      Repeat(97, MaxRun) \o <<233, 233>> }

flatten(lists) ==
    LET RECURSIVE go(_)
        go(i) == IF i > Len(lists) THEN <<>> ELSE lists[i] \o go(i + 1)
    IN  go(1)

(***************************************************************************)
(* The sender and the stream decoder: frames -> FrameBatcher -> batches -> *)
(* FrameDecoder, every batch delivered, in sequence order.                 *)
(***************************************************************************)
SenderIdle ==
    /\ batcher = FrameBatcher_new(StreamMetadata("None", 1), 1000, 1)
    /\ inputs = <<>>
    /\ emitted = <<>>
    /\ decoder = FrameDecoder_new
    /\ delivered = 0
    /\ decoded = <<>>
    /\ lost = {}

BufferIdle ==
    /\ fb = FrameBuffer_new(1)
    /\ fb_last = [op |-> "new", res |-> NextErr(""), warn |-> FALSE]
    /\ adds = <<>>
    /\ played = <<>>

PlaybackIdle ==
    /\ pb = playback_new(0, 0)
    /\ chan = [queue |-> <<>>, closed |-> FALSE]
    /\ sent = 0

CodecIdle ==
    codec = [stage |-> "new", kind |-> "None", current |-> <<>>, previous |-> None,
             frame |-> CompressedFrame("None", <<>>, 0, TRUE), result |-> Err]

\* start_batching_loop before its first rx.recv()
BatchLoop_new ==
    [pc |-> "recv", rx |-> [queue |-> <<>>, closed |-> FALSE],
     tx |-> [queue |-> <<>>, closed |-> FALSE], held |-> None, sent |-> <<>>]

\* BufferController::new and the start of start_buffering_loop
SharedBuffer_new(initial_buffer_batches) ==
    [locked |-> "none", feeder |-> "recv", playback |-> "wait",
     initial_buffer_batches |-> initial_buffer_batches,
     batch |-> [sequence |-> 0, frames |-> <<>>], batch_count |-> 0,
     aborted |-> FALSE, out_closed |-> FALSE,
     buffer_depth |-> 0, adaptive_fps_x2 |-> 0]

\* main.rs: the decoder task's last_metadata and the TerminalDisplay it feeds
Receiver_new ==
    [last_metadata |-> None, logged |-> <<>>,
     display |-> [fps |-> 15, width |-> 80, height |-> 60], received |-> <<>>]

Wire_new == [stage |-> "new", batch |-> <<>>, bytes |-> <<>>, back |-> Err]

RestIdle ==
    /\ bloop = BatchLoop_new
    /\ shared = SharedBuffer_new(0)
    /\ rx = Receiver_new
    /\ wire = Wire_new

InitSender ==
    /\ \E ct \in CompressionTypes, fpb \in FramesPerBatch,
          mbs \in MaxBatchSizes, ki \in KeyframeIntervals :
          batcher = FrameBatcher_new(StreamMetadata(ct, fpb), mbs, ki)
    /\ inputs = <<>>
    /\ emitted = <<>>
    /\ decoder = FrameDecoder_new
    /\ delivered = 0
    /\ decoded = <<>>
    /\ lost = {}
    /\ BufferIdle
    /\ PlaybackIdle
    /\ CodecIdle
    /\ RestIdle

\* the frame source hands the batcher its next frame, at most limit frames in all
AddFrame(f, limit) ==
    /\ Len(inputs) < limit
    /\ LET r == add_frame(batcher, f)
       IN  /\ batcher' = r.b
           /\ emitted' = emitted \o r.out
    /\ inputs' = Append(inputs, f)
    /\ UNCHANGED <<decoder, delivered, decoded, lost, bufferVars, playbackVars, codecVars, restVars>>

Flush ==
    /\ LET r == flush(batcher)
       IN  /\ batcher' = r.b
           /\ emitted' = emitted \o r.out
    /\ UNCHANGED <<inputs, decoder, delivered, decoded, lost, bufferVars, playbackVars, codecVars, restVars>>

DecodeBatch ==
    /\ delivered < Len(emitted)
    /\ LET r == decode_batch(decoder, emitted[delivered + 1])
       IN  /\ decoder' = r.d
           /\ decoded' = Append(decoded, r.frames)
    /\ delivered' = delivered + 1
    /\ UNCHANGED <<batcher, inputs, emitted, lost, bufferVars, playbackVars, codecVars, restVars>>

NextSender ==
    \/ \E f \in Frames : AddFrame(f, MaxFrames)
    \/ Flush
    \/ DecodeBatch

SpecSender == InitSender /\ [][NextSender]_vars

(***************************************************************************)
(* The same pipeline under Delta compression over a transport that may     *)
(* lose whole batches: a lost batch never reaches decode_batch.            *)
(***************************************************************************)
InitLossy ==
    /\ \E fpb \in FramesPerBatch \ {0}, mbs \in MaxBatchSizes, ki \in KeyframeIntervals :
          batcher = FrameBatcher_new(StreamMetadata("Delta", fpb), mbs, ki)
    /\ inputs = <<>>
    /\ emitted = <<>>
    /\ decoder = FrameDecoder_new
    /\ delivered = 0
    /\ decoded = <<>>
    /\ lost = {}
    /\ BufferIdle
    /\ PlaybackIdle
    /\ CodecIdle
    /\ RestIdle

\* the transport loses the next batch
DropBatch ==
    /\ delivered < Len(emitted)
    /\ lost' = lost \cup {delivered + 1}
    /\ decoded' = Append(decoded, <<>>)
    /\ delivered' = delivered + 1
    /\ UNCHANGED <<batcher, inputs, emitted, decoder, bufferVars, playbackVars, codecVars, restVars>>

NextLossy ==
    \/ \E f \in LossyFrames : AddFrame(f, MaxLossyFrames)
    \/ Flush
    \/ DecodeBatch
    \/ DropBatch

SpecLossy == InitLossy /\ [][NextLossy]_vars

(***************************************************************************)
(* The jitter buffer under any interleaving of add_batch and next_frame    *)
(***************************************************************************)
InitBuffer ==
    /\ \E c \in Capacities : fb = FrameBuffer_new(c)
    /\ fb_last = [op |-> "new", res |-> NextErr(""), warn |-> FALSE]
    /\ adds = <<>>
    /\ played = <<>>
    /\ SenderIdle
    /\ PlaybackIdle
    /\ CodecIdle
    /\ RestIdle

AddBatch(sequence, frames) ==
    /\ Len(adds) < MaxAdds
    /\ fb' = add_batch(fb, sequence, frames)
    /\ fb_last' = [op |-> "add_batch", res |-> NextErr(""), warn |-> FALSE]
    /\ adds' = Append(adds, [sequence |-> sequence, frames |-> frames])
    /\ UNCHANGED <<played, senderVars, playbackVars, codecVars, restVars>>

NextFrame ==
    /\ LET r == next_frame(fb)
       IN  /\ fb' = r.fb
           /\ fb_last' = [op |-> "next_frame", res |-> r.res, warn |-> r.warn]
           /\ played' = IF r.res.ok
                         THEN (IF played = <<>> THEN <<>> ELSE <<played[Len(played)]>>)
                              \o <<[seq |-> r.fb.current_sequence,
                                     idx |-> r.fb.current_frame_index - 1]>>
                         ELSE <<>>
    /\ UNCHANGED <<adds, senderVars, playbackVars, codecVars, restVars>>

NextBuffer ==
    \/ \E sequence \in SeqNos, frames \in FrameLists : AddBatch(sequence, frames)
    \/ NextFrame

SpecBuffer == InitBuffer /\ [][NextBuffer]_vars

\* the same calls when the playback loop keeps calling next_frame
SpecBufferFair == InitBuffer /\ [][NextBuffer]_vars /\ WF_vars(NextFrame)

(***************************************************************************)
(* The adaptive receiver's playback task and the channel that feeds it.    *)
(* A frame is named by its position in the decoded stream.                 *)
(***************************************************************************)
InitPlayback ==
    /\ \E i \in Thresholds, r \in Thresholds : pb = playback_new(i, r)
    /\ chan = [queue |-> <<>>, closed |-> FALSE]
    /\ sent = 0
    /\ SenderIdle
    /\ BufferIdle
    /\ CodecIdle
    /\ RestIdle

\* decode_task: decoded_tx.send(decoded)
Send ==
    /\ ~chan.closed
    /\ sent < MaxSent
    /\ chan' = [chan EXCEPT !.queue = Append(@, sent + 1)]
    /\ sent' = sent + 1
    /\ UNCHANGED <<pb, senderVars, bufferVars, codecVars, restVars>>

\* decode_task returns: decoded_tx is dropped
Close ==
    /\ ~chan.closed
    /\ chan' = [chan EXCEPT !.closed = TRUE]
    /\ UNCHANGED <<pb, sent, senderVars, bufferVars, codecVars, restVars>>

\* select!: Some(frame) = decoded_rx.recv()
Recv ==
    /\ ~pb.exited
    /\ chan.queue # <<>>
    /\ pb' = on_frame(pb, Head(chan.queue))
    /\ chan' = [chan EXCEPT !.queue = Tail(@)]
    /\ UNCHANGED <<sent, senderVars, bufferVars, codecVars, restVars>>

\* select!: tokio::time::sleep(frame_interval), if is_playing
Tick ==
    /\ ~pb.exited
    /\ pb.is_playing
    /\ pb' = on_tick(pb)
    /\ UNCHANGED <<chan, sent, senderVars, bufferVars, codecVars, restVars>>

\* select!: else (recv yields None and the timer branch is disabled): break
Exit ==
    /\ ~pb.exited
    /\ chan.closed
    /\ chan.queue = <<>>
    /\ ~pb.is_playing
    /\ pb' = [pb EXCEPT !.exited = TRUE]
    /\ UNCHANGED <<chan, sent, senderVars, bufferVars, codecVars, restVars>>

NextPlayback ==
    \/ Send
    \/ Close
    \/ Recv
    \/ Tick
    \/ Exit

SpecPlayback == InitPlayback /\ [][NextPlayback]_vars

\* The runtime polls every branch of the select! that stays ready: a frame
\* waiting in the channel is received, an armed timer fires, and the else
\* branch is taken once no branch is enabled.
SpecPlaybackFair ==
    /\ InitPlayback
    /\ [][NextPlayback]_vars
    /\ WF_vars(Recv)
    /\ WF_vars(Tick)
    /\ WF_vars(Exit)

(***************************************************************************)
(* start_batching_loop (monegle-sender/src/batcher.rs): the loop owns the  *)
(* FrameBatcher (batcher), receives frames from the bounded channel rx     *)
(* (inputs: the frames received so far) and sends batches into the bounded *)
(* channel tx.  Each await is a step of its own.                           *)
(***************************************************************************)
LoopFrames == { <<97, 98>>, <<97, 97, 97, 97, 97, 97>> }   \* "ab", "aaaaaa"

InitLoop ==
    /\ \E ct \in {"None", "Delta"}, fpb \in FramesPerBatch, mbs \in MaxBatchSizes :
          batcher = FrameBatcher_new(StreamMetadata(ct, fpb), mbs, 2)
    /\ inputs = <<>>
    /\ emitted = <<>>
    /\ decoder = FrameDecoder_new
    /\ delivered = 0
    /\ decoded = <<>>
    /\ lost = {}
    /\ bloop = BatchLoop_new
    /\ shared = SharedBuffer_new(0)
    /\ rx = Receiver_new
    /\ wire = Wire_new
    /\ BufferIdle
    /\ PlaybackIdle
    /\ CodecIdle

\* what the steps of the loop leave alone
loopFrame == <<emitted, decoder, delivered, decoded, lost, bufferVars, playbackVars,
               codecVars, shared, rx, wire>>

\* the frame source: tx.send(ascii_frame) on the inbound channel
Produce(f) ==
    /\ ~bloop.rx.closed
    /\ Len(bloop.rx.queue) < FrameChannelCap
    /\ Len(inputs) + Len(bloop.rx.queue) < MaxLoopFrames
    /\ bloop' = [bloop EXCEPT !.rx.queue = Append(@, f)]
    /\ UNCHANGED <<batcher, inputs, loopFrame>>

\* the frame source ends: the inbound Sender is dropped
CloseIn ==
    /\ ~bloop.rx.closed
    /\ bloop' = [bloop EXCEPT !.rx.closed = TRUE]
    /\ UNCHANGED <<batcher, inputs, loopFrame>>

\* the flush after the loop (lines 220-228) up to its send
after_loop(l, b) ==
    LET r == flush(b)
    IN  [b |-> r.b,
         l |-> IF IsSome(r.out)
               THEN [l EXCEPT !.pc = "final_send", !.held = r.out]
               ELSE [l EXCEPT !.pc = "stopped", !.held = None]]

\* lines 205-206: rx.recv() yields a frame; add_frame
LoopRecv ==
    /\ bloop.pc = "recv"
    /\ bloop.rx.queue # <<>>
    /\ LET ascii_frame == Head(bloop.rx.queue)
           r == add_frame(batcher, ascii_frame)
       IN  /\ batcher' = r.b
           /\ inputs' = Append(inputs, ascii_frame)
           /\ bloop' = IF IsSome(r.out)
                       THEN [bloop EXCEPT !.rx.queue = Tail(@), !.pc = "send",
                                          !.held = r.out]
                       ELSE [bloop EXCEPT !.rx.queue = Tail(@)]
    /\ UNCHANGED loopFrame

\* line 205: rx.recv() yields None (channel closed and drained); flush
LoopRecvNone ==
    /\ bloop.pc = "recv"
    /\ bloop.rx.queue = <<>>
    /\ bloop.rx.closed
    /\ LET a == after_loop(bloop, batcher)
       IN  /\ batcher' = a.b
           /\ bloop' = a.l
    /\ UNCHANGED <<inputs, loopFrame>>

\* lines 214-217: tx.send(batch).await completes: the batch is queued, or the
\* channel is closed and the loop breaks to the flush
LoopSend ==
    /\ bloop.pc = "send"
    /\ IF bloop.tx.closed
       THEN LET a == after_loop(bloop, batcher)
            IN  /\ batcher' = a.b
                /\ bloop' = a.l
       ELSE /\ Len(bloop.tx.queue) < BatchChannelCap
            /\ bloop' = [bloop EXCEPT !.tx.queue = Append(@, Unwrap(bloop.held)),
                                      !.sent = Append(@, Unwrap(bloop.held)),
                                      !.held = None, !.pc = "recv"]
            /\ UNCHANGED batcher
    /\ UNCHANGED <<inputs, loopFrame>>

\* line 227: let _ = tx.send(batch).await
LoopFinalSend ==
    /\ bloop.pc = "final_send"
    /\ IF bloop.tx.closed
       THEN bloop' = [bloop EXCEPT !.held = None, !.pc = "stopped"]
       ELSE /\ Len(bloop.tx.queue) < BatchChannelCap
            /\ bloop' = [bloop EXCEPT !.tx.queue = Append(@, Unwrap(bloop.held)),
                                      !.sent = Append(@, Unwrap(bloop.held)),
                                      !.held = None, !.pc = "stopped"]
    /\ UNCHANGED <<batcher, inputs, loopFrame>>

\* the consumer of the batches: batch_rx.recv()
ConsumerTake ==
    /\ ~bloop.tx.closed
    /\ bloop.tx.queue # <<>>
    /\ bloop' = [bloop EXCEPT !.tx.queue = Tail(@)]
    /\ UNCHANGED <<batcher, inputs, loopFrame>>

\* the consumer ends: the outbound Receiver is dropped
CloseOut ==
    /\ ~bloop.tx.closed
    /\ bloop' = [bloop EXCEPT !.tx.closed = TRUE, !.tx.queue = <<>>]
    /\ UNCHANGED <<batcher, inputs, loopFrame>>

NextLoop ==
    \/ \E f \in LoopFrames : Produce(f)
    \/ CloseIn
    \/ LoopRecv
    \/ LoopRecvNone
    \/ LoopSend
    \/ LoopFinalSend
    \/ ConsumerTake
    \/ CloseOut

\* The loop's task is scheduled whenever its await can complete, and a
\* consumer that has not dropped the channel keeps receiving from it.
SpecLoop ==
    /\ InitLoop
    /\ [][NextLoop]_vars
    /\ WF_vars(LoopRecv)
    /\ WF_vars(LoopRecvNone)
    /\ WF_vars(LoopSend)
    /\ WF_vars(LoopFinalSend)
    /\ WF_vars(ConsumerTake)

(***************************************************************************)
(* start_buffering_loop: the feeder task and the playback loop share the   *)
(* FrameBuffer fb behind a Mutex.  shared.locked names the task holding    *)
(* the guard; every lock().await and every block run under the guard is a  *)
(* step; the guard is dropped at the end of the block.                     *)
(***************************************************************************)
SharedFrameLists == {<<>>, <<"a", "b">>, Repeat("c", 50)}
SharedSeqNos == {1, 2}
SharedCapacities == {1, 2}
InitialBufferBatches == {0, 1}

InitShared ==
    /\ \E capacity \in SharedCapacities : fb = FrameBuffer_new(capacity)
    /\ fb_last = [op |-> "new", res |-> NextErr(""), warn |-> FALSE]
    /\ adds = <<>>
    /\ played = <<>>
    /\ \E n \in InitialBufferBatches : shared = SharedBuffer_new(n)
    /\ bloop = BatchLoop_new
    /\ rx = Receiver_new
    /\ wire = Wire_new
    /\ SenderIdle
    /\ PlaybackIdle
    /\ CodecIdle

\* what the steps of the two tasks leave alone
sharedFrame == <<senderVars, adds, played, playbackVars, codecVars, bloop, rx, wire>>

\* feeder, line 196: rx.recv() yields a batch of decoded frames
FeederRecv(sequence, frames) ==
    /\ shared.feeder = "recv"
    /\ ~shared.aborted
    /\ shared.batch_count < MaxSharedAdds
    /\ shared' = [shared EXCEPT !.feeder = "lock_add",
                                !.batch = [sequence |-> sequence, frames |-> frames],
                                !.batch_count = @ + 1]
    /\ UNCHANGED <<fb, fb_last, sharedFrame>>

\* feeder, lines 199 and 205: buffer_clone.lock().await
FeederLock ==
    /\ shared.feeder \in {"lock_add", "lock_log"}
    /\ ~shared.aborted
    /\ mutex_free(shared)
    /\ shared' = [shared EXCEPT !.locked = "feeder",
                                !.feeder = IF @ = "lock_add" THEN "add" ELSE "log"]
    /\ UNCHANGED <<fb, fb_last, sharedFrame>>

\* feeder, lines 198-201: add_batch under the guard; then the logging
\* condition (every fifth batch, or five seconds since the last log line)
FeederAddBatch(elapsed) ==
    /\ shared.feeder = "add"
    /\ fb' = add_batch(fb, shared.batch.sequence, shared.batch.frames)
    /\ fb_last' = [op |-> "add_batch", res |-> NextErr(""), warn |-> FALSE]
    /\ shared' = [shared EXCEPT !.locked = "none",
                                !.feeder = IF shared.batch_count % 5 = 0 \/ elapsed
                                           THEN "lock_log" ELSE "recv"]
    /\ UNCHANGED sharedFrame

\* feeder, lines 205-211: stats() under the guard, for the log line
FeederLog ==
    /\ shared.feeder = "log"
    /\ shared' = [shared EXCEPT !.locked = "none", !.feeder = "recv"]
    /\ UNCHANGED <<fb, fb_last, sharedFrame>>

\* playback loop: self.buffer.lock().await at lines 222, 243, 263, 273, 297
PlaybackLock ==
    /\ shared.playback \in {"wait", "depth", "next", "report", "underrun"}
    /\ mutex_free(shared)
    /\ shared' = [shared EXCEPT !.locked = "playback",
                                !.playback = CASE @ = "wait" -> "wait_locked"
                                               [] @ = "depth" -> "depth_locked"
                                               [] @ = "next" -> "next_locked"
                                               [] @ = "report" -> "report_locked"
                                               [] @ = "underrun" -> "underrun_locked"]
    /\ UNCHANGED <<fb, fb_last, sharedFrame>>

\* lines 219-232: the wait for the initial buffer
WaitCheck ==
    /\ shared.playback = "wait_locked"
    /\ shared' = [shared EXCEPT !.locked = "none",
                                !.playback =
                                    IF stats(fb).sequences >= shared.initial_buffer_batches
                                    THEN "depth" ELSE "wait"]
    /\ UNCHANGED <<fb, fb_last, sharedFrame>>

\* lines 242-256: read the buffer depth under the guard, choose the rate
ReadDepth ==
    /\ shared.playback = "depth_locked"
    /\ LET buffer_depth == stats(fb).frames
       IN  shared' = [shared EXCEPT !.locked = "none", !.playback = "next",
                                    !.buffer_depth = buffer_depth,
                                    !.adaptive_fps_x2 =
                                        adaptive_fps_x2(TargetFps, buffer_depth)]
    /\ UNCHANGED <<fb, fb_last, sharedFrame>>

\* lines 262-265: next_frame under the guard; then, on a frame, whether
\* five seconds passed since the last stats line
PlaybackNextFrame(elapsed) ==
    /\ shared.playback = "next_locked"
    /\ LET r == next_frame(fb)
       IN  /\ fb' = r.fb
           /\ fb_last' = [op |-> "next_frame", res |-> r.res, warn |-> r.warn]
           /\ shared' = [shared EXCEPT !.locked = "none",
                                       !.playback = IF ~r.res.ok THEN "underrun"
                                                    ELSE IF elapsed THEN "report"
                                                    ELSE "send"]
    /\ UNCHANGED sharedFrame

\* lines 272-291: stats() and the buffered keys under the guard
PlaybackReport ==
    /\ shared.playback = "report_locked"
    /\ shared' = [shared EXCEPT !.locked = "none", !.playback = "send"]
    /\ UNCHANGED <<fb, fb_last, sharedFrame>>

\* lines 296-309: stats() and the buffered keys under the guard, then the
\* two-second sleep
UnderrunStats ==
    /\ shared.playback = "underrun_locked"
    /\ shared' = [shared EXCEPT !.locked = "none", !.playback = "depth"]
    /\ UNCHANGED <<fb, fb_last, sharedFrame>>

\* lines 292-295 and 314: tx.send(frame); a closed channel ends the loop,
\* which aborts the feeder task at its next await
PlaybackSend ==
    /\ shared.playback = "send"
    /\ shared' = IF shared.out_closed
                 THEN [shared EXCEPT !.playback = "stopped", !.aborted = TRUE]
                 ELSE [shared EXCEPT !.playback = "depth"]
    /\ UNCHANGED <<fb, fb_last, sharedFrame>>

\* the consumer of the played frames drops its Receiver
CloseDisplay ==
    /\ ~shared.out_closed
    /\ shared' = [shared EXCEPT !.out_closed = TRUE]
    /\ UNCHANGED <<fb, fb_last, sharedFrame>>

NextShared ==
    \/ \E sequence \in SharedSeqNos, frames \in SharedFrameLists :
          FeederRecv(sequence, frames)
    \/ FeederLock
    \/ \E elapsed \in BOOLEAN : FeederAddBatch(elapsed)
    \/ FeederLog
    \/ PlaybackLock
    \/ WaitCheck
    \/ ReadDepth
    \/ \E elapsed \in BOOLEAN : PlaybackNextFrame(elapsed)
    \/ PlaybackReport
    \/ UnderrunStats
    \/ PlaybackSend
    \/ CloseDisplay

SpecShared == InitShared /\ [][NextShared]_vars

(***************************************************************************)
(* The receiver's decoder task (monegle-receiver/src/main.rs, and the same *)
(* loop in FrameDecoder::start_decoding_loop): batches arrive with their   *)
(* metadata; the display was built before the first batch.                 *)
(***************************************************************************)
Metadatas ==
    { [StreamMetadata(ct, 1) EXCEPT !.fps = d.fps, !.width = d.width,
                                    !.height = d.height] :
        ct \in {"None", "Delta"},
        d \in { [fps |-> 15, width |-> 80, height |-> 60],
                [fps |-> 5, width |-> 10, height |-> 10],
                [fps |-> 15, width |-> 10, height |-> 10],
                [fps |-> 5, width |-> 80, height |-> 60] } }

\* the batch a sender configured with metadata emits for one frame
MetaBatch(metadata, sequence, frame) ==
    [Unwrap(add_frame(FrameBatcher_new(metadata, 1000, 2), frame).out)
        EXCEPT !.sequence = sequence]

InitMetadata ==
    /\ rx = Receiver_new
    /\ decoder = FrameDecoder_new
    /\ decoded = <<>>
    /\ batcher = FrameBatcher_new(StreamMetadata("None", 1), 1000, 1)
    /\ inputs = <<>>
    /\ emitted = <<>>
    /\ delivered = 0
    /\ lost = {}
    /\ bloop = BatchLoop_new
    /\ shared = SharedBuffer_new(0)
    /\ wire = Wire_new
    /\ BufferIdle
    /\ PlaybackIdle
    /\ CodecIdle

\* main.rs lines 116-141: one iteration of the decoder task's loop.  The
\* display (lines 155-160) is not touched by it.
ReceiveBatch(batch) ==
    /\ Len(rx.received) < MaxMetaBatches
    /\ LET changed == rx.last_metadata # Some(batch.metadata)
           r == decode_batch(decoder, batch)
       IN  /\ rx' = [rx EXCEPT
                       !.logged = IF changed THEN Append(@, batch.metadata) ELSE @,
                       !.last_metadata = IF changed THEN Some(batch.metadata) ELSE @,
                       !.received = Append(@, batch.metadata)]
           /\ decoder' = r.d
           /\ decoded' = Append(decoded, r.frames)
    /\ UNCHANGED <<batcher, inputs, emitted, delivered, lost, bufferVars, playbackVars,
                   codecVars, bloop, shared, wire>>

NextMetadata ==
    \E metadata \in Metadatas :
        ReceiveBatch(MetaBatch(metadata, Len(rx.received), <<97, 98>>))

SpecMetadata == InitMetadata /\ [][NextMetadata]_vars

(***************************************************************************)
(* The codec on its own: a frame is encoded by the encoder of a kind, or   *)
(* by encode_best, and the CompressedFrame is decoded by decode_frame with *)
(* the same previous frame.                                                *)
(***************************************************************************)
InitCodec ==
    /\ CodecIdle
    /\ SenderIdle
    /\ BufferIdle
    /\ PlaybackIdle
    /\ RestIdle

\* get_encoder(kind).encode(current, previous)
Encode(kind, current, previous) ==
    /\ codec.stage = "new"
    /\ codec' = [stage |-> "encoded", kind |-> kind, current |-> current,
                 previous |-> previous,
                 frame |-> CompressedFrame(kind, encoder_encode(kind, current, previous),
                                           0, ~IsSome(previous)),
                 result |-> Err]
    /\ UNCHANGED <<senderVars, bufferVars, playbackVars, restVars>>

\* HybridEncoder::encode_best(current, previous)
EncodeBest(current, previous) ==
    /\ codec.stage = "new"
    /\ codec' = [stage |-> "best", kind |-> "Auto", current |-> current,
                 previous |-> previous,
                 frame |-> encode_best(current, previous),
                 result |-> Err]
    /\ UNCHANGED <<senderVars, bufferVars, playbackVars, restVars>>

\* decode_frame(frame, previous) on the frame just produced
Decode ==
    /\ codec.stage \in {"encoded", "best"}
    /\ codec' = [codec EXCEPT !.stage = "decoded",
                              !.result = decode_frame(codec.frame, codec.previous)]
    /\ UNCHANGED <<senderVars, bufferVars, playbackVars, restVars>>

NextCodec ==
    \/ \E kind \in CompressionTypes, current \in CodecFrames,
          previous \in {None} \cup {Some(f) : f \in CodecFrames} :
          Encode(kind, current, previous)
    \/ \E current \in LongRunFrames : Encode("Rle", current, None)
    \/ \E current \in CodecFrames,
          previous \in {None} \cup {Some(f) : f \in CodecFrames} :
          EncodeBest(current, previous)
    \/ Decode

SpecCodec == InitCodec /\ [][NextCodec]_vars

(***************************************************************************)
(* decode_frame on payloads that no encoder produced: every byte string up *)
(* to MaxShortLen bytes over ByteAlphabet, and the payloads the encoders   *)
(* produce, cut short or with one byte replaced.  The build decides what a *)
(* request for a huge Vec does (resize_outcomes).                          *)
(***************************************************************************)
\* zero, small counts and lengths, an ASCII letter, a UTF-8 continuation byte,
\* a byte UTF-8 never contains
ByteAlphabet == {0, 1, 2, 97, 128, 255}
ByteStrings(n) == UNION { [1..k -> ByteAlphabet] : k \in 0..n }
ByteFrames == { <<97, 98>>, <<97, 97, 233>> }          \* "ab", "aa" and U+00E9
BytePrevious == {None, Some(<<97, 98>>)}
PointerWidths == {32, 64}

ValidPayloads ==
    { encoder_encode(kind, f, p) :
        kind \in {"None", "Rle", "Delta", "Zlib"}, f \in ByteFrames, p \in BytePrevious }
Truncated(p) == { SubSeq(p, 1, n) : n \in 0..Len(p) }
Corrupted(p) == { [p EXCEPT ![i] = b] : i \in 1..Len(p), b \in ByteAlphabet }
Payloads ==
    ByteStrings(MaxShortLen) \cup UNION { Truncated(p) \cup Corrupted(p) : p \in ValidPayloads }

\* the length of the Vec<char> the decoder of a kind asks resize for
requested_len(kind, data) == IF kind = "Delta" THEN delta_requested_len(data) ELSE 0

\* the frames the model can hold: a decoded frame has at most MaxFrameChars
\* characters, or the request is one that the build may refuse
Representable(kind, data) ==
    \/ requested_len(kind, data) <= MaxFrameChars
    \/ requested_len(kind, data) > I32_MAX \div CHAR_SIZE

InitBytes ==
    /\ \E kind \in {"None", "Rle", "Delta", "Zlib"}, data \in Payloads,
          previous \in BytePrevious, pointer_width \in PointerWidths :
          /\ Representable(kind, data)
          /\ codec = [stage |-> "payload", kind |-> kind, current |-> <<>>,
                      previous |-> previous,
                      frame |-> CompressedFrame(kind, data, 0, ~IsSome(previous)),
                      result |-> Err, pointer_width |-> pointer_width]
    /\ SenderIdle
    /\ BufferIdle
    /\ PlaybackIdle
    /\ RestIdle

\* decode_frame(frame, previous) on the build: the call returns a Result, or
\* the resize inside it panics or aborts the process
DecodeBytes(outcome) ==
    /\ codec.stage = "payload"
    /\ outcome \in resize_outcomes(requested_len(codec.kind, codec.frame.data),
                                    codec.pointer_width)
    /\ outcome = "ok" => requested_len(codec.kind, codec.frame.data) <= MaxFrameChars
    /\ codec' = [codec EXCEPT
                    !.stage = CASE outcome = "ok" -> "returned"
                                [] outcome = "panic" -> "panicked"
                                [] outcome = "abort" -> "aborted",
                    !.result = IF outcome = "ok"
                               THEN decode_frame(codec.frame, codec.previous)
                               ELSE Err]
    /\ UNCHANGED <<senderVars, bufferVars, playbackVars, restVars>>

NextBytes == \E outcome \in {"ok", "panic", "abort"} : DecodeBytes(outcome)

SpecBytes == InitBytes /\ [][NextBytes]_vars

(***************************************************************************)
(* A FrameBatch through encode_to_bytes and decode_from_bytes.             *)
(***************************************************************************)
WireStreamIds == { Repeat(0, STREAM_ID_LEN), <<>> \o [i \in 1..STREAM_ID_LEN |-> (37 * i) % 256] }

\* 0, 1, 2^16, 1,762,300,000,000 (a time in milliseconds), 2^64 - 1
WireU64s ==
    { <<0, 0, 0, 0>>, <<1, 0, 0, 0>>, <<0, 1, 0, 0>>, <<63232, 20803, 410, 0>>,
      <<65535, 65535, 65535, 65535>> }

WireMetadatas ==
    { StreamMetadata("None", 1),
      [StreamMetadata("Delta", 6) EXCEPT !.fps = 15, !.width = 80, !.height = 60,
                                         !.character_set = "Dense", !.color_mode = "Purple"],
      [StreamMetadata("Auto", 255) EXCEPT !.fps = 255, !.width = 65535, !.height = 256,
                                          !.character_set = "Detailed", !.color_mode = "Rgb"] }

WireFrames ==
    { CompressedFrame("None", <<>>, <<0, 0, 0, 0>>, TRUE),
      CompressedFrame("Rle", <<2, 0, 1, 97>>, <<1, 0, 0, 0>>, FALSE),
      CompressedFrame("Auto", <<0, 255, 1, 0, 0, 0, 0, 0, 0, 1, 1>>,
                      <<65535, 65535, 65535, 65535>>, TRUE),
      CompressedFrame("Zlib", Repeat(7, 300), <<0, 1, 0, 0>>, FALSE) }

WireFrameLists == UNION { [1..k -> WireFrames] : k \in 1..MaxWireFrames }

WireBatches ==
    { [stream_id |-> id, sequence |-> sequence, metadata |-> metadata,
       frames |-> frames, timestamp |-> timestamp] :
        id \in WireStreamIds, sequence \in {<<0, 0, 0, 0>>, <<65535, 65535, 65535, 65535>>},
        metadata \in WireMetadatas, frames \in WireFrameLists, timestamp \in WireU64s }

InitWire ==
    /\ \E batch \in WireBatches :
          wire = [stage |-> "batch", batch |-> batch, bytes |-> <<>>, back |-> Err]
    /\ bloop = BatchLoop_new
    /\ shared = SharedBuffer_new(0)
    /\ rx = Receiver_new
    /\ SenderIdle
    /\ BufferIdle
    /\ PlaybackIdle
    /\ CodecIdle

\* batch.encode_to_bytes()
Serialize ==
    /\ wire.stage = "batch"
    /\ wire' = [wire EXCEPT !.stage = "bytes", !.bytes = encode_to_bytes(wire.batch)]
    /\ UNCHANGED <<senderVars, bufferVars, playbackVars, codecVars, bloop, shared, rx>>

\* FrameBatch::decode_from_bytes(&bytes)
Deserialize ==
    /\ wire.stage = "bytes"
    /\ wire' = [wire EXCEPT !.stage = "back", !.back = decode_from_bytes(wire.bytes)]
    /\ UNCHANGED <<senderVars, bufferVars, playbackVars, codecVars, bloop, shared, rx>>

NextWire ==
    \/ Serialize
    \/ Deserialize

SpecWire == InitWire /\ [][NextWire]_vars

(***************************************************************************)
(* Properties of the codec (SpecCodec)                                     *)
(***************************************************************************)
\* C17: under Delta, decoding the encoding of a frame f2 against a previous frame
\* f1 with the same f1 gives f2, also when f2 is shorter than f1 (the output is
\* cut to the length of f2), longer than f1 or empty, and when the previous
\* frame is absent on both sides.
C17_DeltaRoundTrip ==
    (codec.stage = "decoded" /\ codec.frame.compression_type = "Delta")
        => codec.result = Ok(codec.current)

\* C17 witness: a frame shorter than the previous frame, and not a prefix of
\* it, was encoded and decoded under Delta.
C17_Witness ==
    /\ codec.stage = "decoded"
    /\ codec.kind = "Delta"
    /\ IsSome(codec.previous)
    /\ codec.current # <<>>
    /\ Len(codec.current) < Len(Unwrap(codec.previous))
    /\ codec.current # SubSeq(Unwrap(codec.previous), 1, Len(codec.current))

\* C18: for None, RunLength and Deflate, decoding the encoding of a frame with
\* no previous frame gives the frame: the empty frame, frames with multi-byte
\* characters and, for RunLength, frames with a run longer than u16::MAX, which
\* is split into entries whose counts all fit 16 bits.
C18_RoundTrip ==
    (/\ codec.stage = "decoded"
     /\ codec.kind \in {"None", "Rle", "Zlib"}
     /\ codec.previous = None)
        => codec.result = Ok(codec.current)

\* C18 witness: a frame of a run longer than u16::MAX followed by two-byte
\* characters was encoded under RunLength, as three entries, and decoded.
C18_Witness ==
    /\ codec.stage = "decoded"
    /\ codec.kind = "Rle"
    /\ Len(codec.current) > U16_MAX + 1
    /\ codec.current[Len(codec.current)] = 233
    /\ Len(codec.frame.data) = 4 + 4 + 5

\* the encodings encode_best chooses from, in its order of evaluation
Candidates(current, previous) ==
    <<[kind |-> "None", data |-> none_encode(current, previous)],
      [kind |-> "Rle", data |-> rle_encode(current, previous)]>>
    \o (IF IsSome(previous)
        THEN <<[kind |-> "Delta", data |-> delta_encode(current, previous)]>>
        ELSE <<>>)
    \o <<[kind |-> "Zlib", data |-> zlib_encode(current, previous)]>>

\* C19: encode_best returns the shortest payload among the None, RunLength,
\* Delta (only with a previous frame) and Deflate encodings of the frame, the
\* first of them in this order among payloads of equal length, together with
\* the kind that produced it.
C19_AutoSelection ==
    codec.stage = "best" =>
        LET cands == Candidates(codec.current, codec.previous)
            first == CHOOSE i \in 1..Len(cands) :
                        /\ \A j \in 1..Len(cands) : Len(cands[i].data) <= Len(cands[j].data)
                        /\ \A j \in 1..(i - 1) : Len(cands[j].data) > Len(cands[i].data)
        IN  /\ codec.frame.compression_type = cands[first].kind
            /\ codec.frame.data = cands[first].data

\* C19 witness: encode_best was given a frame and a previous frame for which
\* two encodings are both the shortest, and returned the earlier of the two.
C19_Witness ==
    /\ codec.stage = "best"
    /\ IsSome(codec.previous)
    /\ LET cands == Candidates(codec.current, codec.previous)
       IN  \E i, j \in 1..Len(cands) :
               /\ i < j
               /\ Len(cands[i].data) = Len(cands[j].data)
               /\ \A k \in 1..Len(cands) : Len(cands[i].data) <= Len(cands[k].data)
               /\ codec.frame.compression_type = cands[i].kind

\* C20: for every frame and every previous frame or none, the payload the Auto
\* encoder produces is not longer than the None encoding of the frame.
C20_AutoNotLonger ==
    (codec.stage = "encoded" /\ codec.kind = "Auto")
        => Len(codec.frame.data) <= Len(none_encode(codec.current, codec.previous))

\* C20 witness: the Auto encoder produced a payload shorter than the raw bytes.
C20_Witness ==
    /\ codec.stage = "encoded"
    /\ codec.kind = "Auto"
    /\ Len(codec.frame.data) < Len(none_encode(codec.current, codec.previous))

(***************************************************************************)
(* Properties of the sender and the stream decoder (SpecSender)            *)
(***************************************************************************)
\* every CompressedFrame emitted so far, in emission order
EmittedFrames == flatten([i \in 1..Len(emitted) |-> emitted[i].frames])

\* the previous-frame reference add_frame passes when it compresses input k (1-based)
ReferenceOf(k) ==
    IF (k - 1) % batcher.keyframe_interval = 0 THEN None ELSE Some(inputs[k - 1])

\* C1: every batch returned by add_frame or flush has serialized size
\* (size_bytes) at most max_batch_size.
C1_BatchWithinLimit ==
    \A i \in 1..Len(emitted) : size_bytes(emitted[i]) <= batcher.max_batch_size

\* C3: under compression kind Auto every emitted CompressedFrame carries the
\* concrete kind (None, Rle, Delta or Zlib) whose encoder produced its payload,
\* never the kind Auto, so the decoder never dispatches on Auto.
C3_ConcreteKindOnWire ==
    batcher.compression_type = "Auto" =>
        \A k \in 1..Len(EmittedFrames) :
            LET cf == EmittedFrames[k]
            IN  /\ cf.compression_type \in CompressionTypes \ {"Auto"}
                /\ cf.data = encoder_encode(cf.compression_type,
                                            inputs[cf.frame_number + 1],
                                            ReferenceOf(cf.frame_number + 1))

\* C4: once the pending list is flushed and every emitted batch has been fed,
\* in sequence order, to the decoder's decode_batch, the decoded frames are
\* exactly the input frames, in input order, for every compression kind.
C4_EndToEnd ==
    (batcher.current_batch = <<>> /\ delivered = Len(emitted)) =>
        flatten(decoded) = inputs

\* C7: no batch returned by add_frame or flush has an empty frame list.
C7_NoEmptyBatch ==
    \A i \in 1..Len(emitted) : emitted[i].frames # <<>>

\* C7 witness: with frames_per_batch = 0 two batches were emitted, and a flush
\* on the empty pending list has left them as they are.
C7_Witness ==
    /\ batcher.frames_per_batch = 0
    /\ Len(emitted) >= 2
    /\ batcher.current_batch = <<>>

\* C8: the k-th emitted batch carries sequence k-1 (no gap, no repeat), and a
\* call that emits nothing does not consume a sequence number.
C8_SequenceNumbers ==
    /\ \A i \in 1..Len(emitted) : emitted[i].sequence = i - 1
    /\ batcher.sequence_counter = Len(emitted)

\* C8 witness: three batches emitted, and calls that emitted nothing in between
\* (more input frames than batches).
C8_Witness ==
    /\ Len(emitted) >= 2
    /\ Len(inputs) > Len(emitted)
    /\ emitted[Len(emitted)].sequence = Len(emitted) - 1

\* C9: after add_frame calls followed by flush (pending list empty), the frame
\* lists of the emitted batches, concatenated in sequence order, hold exactly
\* one CompressedFrame per input frame, in input order, frame_number being the
\* frame's 0-based input index.
C9_FramesInOrder ==
    batcher.current_batch = <<>> =>
        /\ Len(EmittedFrames) = Len(inputs)
        /\ \A k \in 1..Len(EmittedFrames) :
               /\ EmittedFrames[k].frame_number = k - 1
               /\ EmittedFrames[k].data =
                      encoder_encode(batcher.compression_type, inputs[k], ReferenceOf(k))

\* C9 witness: the third frame did not fit the pending batch of two frames, was
\* deferred, and was emitted alone by flush.
C9_Witness ==
    /\ batcher.current_batch = <<>>
    /\ Len(inputs) = 3
    /\ Len(emitted) = 2
    /\ Len(emitted[1].frames) = 2
    /\ size_bytes([emitted[1] EXCEPT !.frames = @ \o emitted[2].frames])
           > batcher.max_batch_size

\* C10: an emitted frame is a keyframe iff frame_number mod keyframe_interval = 0;
\* a keyframe is encoded with no previous-frame reference, and the decoder
\* decodes it to the original frame whatever previous frame it holds.
C10_Keyframes ==
    \A k \in 1..Len(EmittedFrames) :
        LET cf == EmittedFrames[k]
            original == inputs[cf.frame_number + 1]
        IN  /\ cf.is_keyframe <=> (cf.frame_number % batcher.keyframe_interval = 0)
            /\ cf.is_keyframe =>
                   /\ cf.data = encoder_encode(batcher.compression_type, original, None)
                   /\ \A held \in {None} \cup {Some(f) : f \in Frames} :
                          decoder_decode_frame([previous_frame |-> held], cf).res
                              = Ok(original)

\* C15: FrameDecoder::decode_frame decodes a frame marked is_keyframe with no
\* reference and any other frame with the held previous frame; when decoding
\* fails it returns the error and leaves the held previous frame unchanged,
\* when it succeeds the held previous frame becomes the decoded frame.
\* Checked for the decoder as it stands and every frame emitted so far.
C15_DecodeFrame ==
    \A k \in 1..Len(EmittedFrames) :
        LET cf == EmittedFrames[k]
            reference == IF cf.is_keyframe THEN None ELSE decoder.previous_frame
            expected == encoder_decode(cf.compression_type, cf.data, reference)
            r == decoder_decode_frame(decoder, cf)
        IN  /\ r.res = expected
            /\ ~expected.ok => r.d.previous_frame = decoder.previous_frame
            /\ expected.ok => r.d.previous_frame = Some(expected.val)

\* C15 witness: the decoder holds a frame it decoded; one emitted frame fails
\* to decode on it, and a frame that is not a keyframe decodes on it.
C15_Witness ==
    /\ IsSome(decoder.previous_frame)
    /\ delivered > 0
    /\ \E k \in 1..Len(EmittedFrames) :
           ~decoder_decode_frame(decoder, EmittedFrames[k]).res.ok
    /\ \E k \in 1..Len(EmittedFrames) :
           /\ ~EmittedFrames[k].is_keyframe
           /\ decoder_decode_frame(decoder, EmittedFrames[k]).res.ok

\* the outcomes of decode_frame on frames[i], frames[i+1], ..., each attempted on
\* the decoder the attempt before it left
RECURSIVE Attempts(_, _, _)
Attempts(d, frames, i) ==
    IF i > Len(frames) THEN <<>>
    ELSE LET r == decoder_decode_frame(d, frames[i])
         IN  <<r.res>> \o Attempts(r.d, frames, i + 1)

\* the values of the successful outcomes, in order
Successes(results) ==
    LET IsOk(r) == r.ok
        oks == SelectSeq(results, IsOk)
    IN  [i \in 1..Len(oks) |-> oks[i].val]

\* C16: decode_batch attempts every frame of the batch in order and returns
\* exactly the frames that decoded, in batch order: a frame that fails is
\* skipped and the frames after it are still attempted; the call itself never
\* fails.
C16_DecodeBatch ==
    [][(delivered' = delivered + 1 /\ lost' = lost) =>
          LET batch == emitted[delivered + 1]
              attempts == Attempts(decoder, batch.frames, 1)
          IN  /\ Len(attempts) = Len(batch.frames)
              /\ decoded'[delivered'] = Successes(attempts)]_vars

\* C16 witness: decode_batch was given a batch whose first frame, a keyframe,
\* fails to decode, and returned a later frame of that batch.
C16_Witness ==
    \E j \in 1..delivered :
        /\ Len(emitted[j].frames) >= 2
        /\ emitted[j].frames[1].is_keyframe
        /\ ~decoder_decode_frame(FrameDecoder_new, emitted[j].frames[1]).res.ok
        /\ decoded[j] # <<>>

(***************************************************************************)
(* Properties of the pipeline over a lossy transport (SpecLossy)           *)
(***************************************************************************)
\* the batch (by position in emitted) that carries frame number n reached the decoder
FrameDelivered(n) ==
    \E j \in (1..delivered) \ lost :
        \E p \in 1..Len(emitted[j].frames) : emitted[j].frames[p].frame_number = n

\* the frame numbers from the last keyframe at or before frame n up to n
KeyframeRun(n) ==
    LET ks == {k \in 0..n : EmittedFrames[k + 1].is_keyframe}
    IN  IF ks = {} THEN {}
        ELSE (CHOOSE k \in ks : \A x \in ks : x <= k)..n

\* C11: under Delta compression and loss of whole batches, when a keyframe k and
\* every frame k+1..m have reached one decoder in order, the decoder's outputs
\* for the frames k..m are the original frames, whatever it was given, or
\* decoded wrongly, before k.
C11_SelfHealing ==
    batcher.compression_type = "Delta" =>
        \A j \in (1..delivered) \ lost :
            \A p \in 1..Len(emitted[j].frames) :
                LET m == emitted[j].frames[p].frame_number
                IN  (KeyframeRun(m) # {} /\ \A n \in KeyframeRun(m) : FrameDelivered(n))
                        => /\ Len(decoded[j]) = Len(emitted[j].frames)
                           /\ decoded[j][p] = inputs[m + 1]

\* C11 witness: the batch of frame 0 was lost, frame 1 was decoded wrongly
\* against no reference, and the keyframe 2 and the delta frame 3 after it
\* were both decoded to the original frames.
C11_Witness ==
    /\ batcher.compression_type = "Delta"
    /\ batcher.keyframe_interval = 2
    /\ batcher.frames_per_batch = 1
    /\ lost = {1}
    /\ delivered = 4
    /\ decoded[2] # <<inputs[2]>>
    /\ decoded[3] = <<inputs[3]>>
    /\ decoded[4] = <<inputs[4]>>
    /\ inputs[4] # inputs[3]

(***************************************************************************)
(* Properties of the jitter buffer (SpecBuffer)                            *)
(***************************************************************************)
\* the cursor has returned every frame of its sequence s, s + 1 is missing and
\* t is the next buffered sequence after the gap
GapAfterCurrent(t) ==
    LET s == fb.current_sequence
    IN  /\ s \in keys(fb.buffer)
        /\ fb.buffer[s] # <<>>
        /\ fb.current_frame_index >= Len(fb.buffer[s])
        /\ t \in keys(fb.buffer)
        /\ t > s + 1
        /\ \A k \in keys(fb.buffer) : ~(s < k /\ k < t)
        /\ fb.buffer[t] # <<>>

\* C2: when the buffer holds sequences s and t > s + 1 with none between them
\* and every frame of s has been returned, the next next_frame call returns the
\* first frame of t (after add_batch(5,[a,b]), add_batch(7,[c]): a, b, then c).
C2_GapSkip ==
    [][\A t \in SeqNos :
          (GapAfterCurrent(t) /\ fb_last'.op = "next_frame")
              => fb_last'.res = NextOk(fb.buffer[t][1])]_vars

\* C12: when the number of buffered sequences is at capacity, add_batch removes
\* the entry with the numerically smallest key, whatever the arrival order,
\* before it inserts; it then inserts or replaces the entry of the given
\* sequence and leaves the other entries alone.  With capacity 2, after
\* add_batch for sequences 1, 2, 3 the buffer holds exactly {2, 3}: sequence 1
\* is a buffer miss.
C12_Eviction ==
    [][Len(adds') = Len(adds) + 1 =>
          LET K == keys(fb.buffer)
              call == adds'[Len(adds')]
              kept == IF Cardinality(K) = fb.capacity /\ K # {}
                      THEN K \ {SetMin(K)} ELSE K
          IN  /\ Cardinality(K) <= fb.capacity =>
                     /\ keys(fb'.buffer) = kept \cup {call.sequence}
                     /\ fb'.buffer[call.sequence] = call.frames
                     /\ \A k \in kept \ {call.sequence} : fb'.buffer[k] = fb.buffer[k]
              /\ (/\ fb.capacity = 2
                  /\ [i \in 1..Len(adds') |-> adds'[i].sequence] = <<1, 2, 3>>)
                     => keys(fb'.buffer) = {2, 3}]_vars

\* C12 witness: capacity 2, add_batch was called for sequences 1, 2, 3 in this
\* order, and sequence 1 is gone.
C12_Witness ==
    /\ fb.capacity = 2
    /\ fb_last.op = "add_batch"
    /\ [i \in 1..Len(adds) |-> adds[i].sequence] = <<1, 2, 3>>
    /\ 1 \notin keys(fb.buffer)

\* the cursor that steps 1 and 2 of next_frame resolve to, for a non-empty buffer:
\* step 1 jumps to the smallest sequence if the current one is absent, step 2
\* moves on from an exhausted sequence to its successor or, if that is absent,
\* to the smallest sequence
ResolvedCursor(b) ==
    LET K == keys(b.buffer)
        c1 == IF b.current_sequence \in K
              THEN [seq |-> b.current_sequence, idx |-> b.current_frame_index]
              ELSE [seq |-> SetMin(K), idx |-> 0]
    IN  IF c1.idx >= Len(b.buffer[c1.seq])
        THEN [seq |-> IF c1.seq + 1 \in K THEN c1.seq + 1 ELSE SetMin(K), idx |-> 0]
        ELSE c1

\* C13: next_frame fails with "Buffer is empty" exactly when no sequence is
\* buffered, and with "Empty frame batch" exactly when the sequence its cursor
\* resolves to has an empty frame list; in every other state it returns the
\* frame at the resolved cursor and leaves current_frame_index one past it.
\* No other error is reachable.
C13_NextFrameOutcomes ==
    [][fb_last'.op = "next_frame" =>
          LET K == keys(fb.buffer)
              res == fb_last'.res
          IN  /\ (res = NextErr("Buffer is empty")) <=> (K = {})
              /\ K # {} =>
                     LET c == ResolvedCursor(fb)
                     IN  /\ (res = NextErr("Empty frame batch")) <=> (fb.buffer[c.seq] = <<>>)
                         /\ fb.buffer[c.seq] # <<>> =>
                                /\ res = NextOk(fb.buffer[c.seq][c.idx + 1])
                                /\ fb'.current_sequence = c.seq
                                /\ fb'.current_frame_index = c.idx + 1
              /\ res.ok \/ res.err \in {"Buffer is empty", "Empty frame batch"}]_vars

\* C13 witness: next_frame moved on from an exhausted sequence to a buffered
\* sequence whose frame list is empty and failed with "Empty frame batch".
C13_Witness ==
    /\ fb_last.op = "next_frame"
    /\ fb_last.res = NextErr("Empty frame batch")
    /\ Cardinality(keys(fb.buffer)) >= 2
    /\ fb.current_sequence - 1 \in keys(fb.buffer)
    /\ fb.buffer[fb.current_sequence - 1] # <<>>

\* the sequence next_frame expects after the cursor (s1, i1) is absent
ExpectedAbsent(s1, i1) ==
    \/ s1 \notin keys(fb.buffer)
    \/ /\ i1 + 1 >= Len(fb.buffer[s1])
       /\ s1 + 1 \notin keys(fb.buffer)

\* C14: for two consecutive next_frame calls that succeed at the cursors
\* (s1, i1) and (s2, i2), whatever add_batch calls come between them, either
\* (s2, i2) = (s1, i1 + 1), or s1 was exhausted and (s2, i2) = (s1 + 1, 0), or
\* the call jumped: the expected sequence was absent and (s2, i2) is index 0
\* of the smallest buffered sequence.
C14_PlaybackOrder ==
    [][(fb_last'.op = "next_frame" /\ played # <<>> /\ Len(played') = 2) =>
          LET s1 == played'[1].seq
              i1 == played'[1].idx
              s2 == played'[2].seq
              i2 == played'[2].idx
          IN  \/ s2 = s1 /\ i2 = i1 + 1
              \/ /\ s1 \in keys(fb.buffer)
                 /\ i1 + 1 >= Len(fb.buffer[s1])
                 /\ s2 = s1 + 1 /\ i2 = 0
              \/ /\ ExpectedAbsent(s1, i1)
                 /\ s2 = SetMin(keys(fb.buffer)) /\ i2 = 0]_vars

\* C14, amended: as C14, but a jump lands on index 0 of the smallest buffered
\* sequence or, when the current sequence is absent and the smallest buffered
\* sequence has an empty frame list, on index 0 of the successor of the
\* smallest sequence.
C14_PlaybackOrderAmended ==
    [][(fb_last'.op = "next_frame" /\ played # <<>> /\ Len(played') = 2) =>
          LET s1 == played'[1].seq
              i1 == played'[1].idx
              s2 == played'[2].seq
              i2 == played'[2].idx
              min_seq == SetMin(keys(fb.buffer))
          IN  \/ s2 = s1 /\ i2 = i1 + 1
              \/ /\ s1 \in keys(fb.buffer)
                 /\ i1 + 1 >= Len(fb.buffer[s1])
                 /\ s2 = s1 + 1 /\ i2 = 0
              \/ /\ ExpectedAbsent(s1, i1)
                 /\ s2 = min_seq /\ i2 = 0
              \/ /\ s1 \notin keys(fb.buffer)
                 /\ fb.buffer[min_seq] = <<>>
                 /\ s2 = min_seq + 1 /\ i2 = 0]_vars

\* C14 witness: two calls in a row succeeded; the sequence of the first was
\* evicted in between, the smallest buffered sequence has no frames, and the
\* second call returned index 0 of the successor of the smallest sequence.
C14_Witness ==
    /\ fb_last.op = "next_frame"
    /\ Len(played) = 2
    /\ played[1].seq \notin keys(fb.buffer)
    /\ fb.buffer[SetMin(keys(fb.buffer))] = <<>>
    /\ played[2] = [seq |-> SetMin(keys(fb.buffer)) + 1, idx |-> 0]

\* C24: a next_frame call that moves the cursor to a smaller sequence raises
\* the backward-jump warning and returns a frame, and a call that moves the
\* cursor to a larger sequence raises no warning.
C24_BackwardJumpWarning ==
    [][(fb_last'.op = "next_frame" /\ adds' = adds) =>
          /\ fb'.current_sequence < fb.current_sequence =>
                 (fb_last'.warn /\ fb_last'.res.ok)
          /\ fb'.current_sequence > fb.current_sequence => ~fb_last'.warn]_vars

\* C28: flush on an empty pending list returns no batch and leaves the
\* batcher (sequence counter, frame counter, last plaintext frame) as it was;
\* flush on a non-empty pending list returns one batch that carries all
\* pending frames and the current sequence number, adds 1 to the sequence
\* counter, empties the pending list and leaves the rest as it was.
C28_FlushEffect ==
    [][(inputs' = inputs /\ delivered' = delivered) =>
          IF batcher.current_batch = <<>>
          THEN batcher' = batcher /\ emitted' = emitted
          ELSE /\ Len(emitted') = Len(emitted) + 1
               /\ SubSeq(emitted', 1, Len(emitted)) = emitted
               /\ emitted'[Len(emitted')].frames = batcher.current_batch
               /\ emitted'[Len(emitted')].sequence = batcher.sequence_counter
               /\ emitted'[Len(emitted')].metadata = batcher.metadata
               /\ batcher' = [batcher EXCEPT !.sequence_counter = @ + 1,
                                             !.current_batch = <<>>]]_vars

\* C28 witness: the last batch emitted holds fewer frames than a full batch,
\* nothing is pending, and frames had been given to the batcher: a flush
\* emitted the partial batch.
C28_Witness ==
    /\ emitted # <<>>
    /\ batcher.current_batch = <<>>
    /\ Len(emitted[Len(emitted)].frames) < batcher.frames_per_batch
    /\ Len(emitted[Len(emitted)].frames) >= 2
    /\ batcher.sequence_counter = emitted[Len(emitted)].sequence + 1

(***************************************************************************)
(* Properties of the playback task (SpecPlayback)                          *)
(***************************************************************************)
\* C5: no frame is displayed until the number of buffered frames has reached
\* initial_buffer_size (the buffer only grows before the first display).
C5_InitialHysteresis ==
    [][(pb.frames_displayed = 0 /\ pb'.frames_displayed > 0)
          => Len(pb.buffer) >= pb.initial_buffer_size]_vars

\* C6: after playback paused on an empty buffer, playback resumes (and so a
\* frame is displayed) only once the buffer holds resume_buffer_size frames.
C6_ResumeHysteresis ==
    [][(pb.frames_displayed > 0 /\ ~pb.is_playing /\ pb'.is_playing)
          => Len(pb'.buffer) >= pb.resume_buffer_size]_vars

\* C21: once the decoded-frame channel is closed, the playback task eventually
\* has displayed every frame that was sent to it, holds none, and has exited,
\* whatever the initial and resume thresholds are.
C21_ReceiverShutdown ==
    chan.closed ~> (pb.exited /\ pb.buffer = <<>> /\ pb.frames_displayed = sent)

(***************************************************************************)
(* Properties of the batching loop (SpecLoop)                              *)
(***************************************************************************)
\* the frame numbers carried by a list of batches, in order
FrameNumbers(batches) ==
    LET frames == flatten([i \in 1..Len(batches) |-> batches[i].frames])
    IN  [i \in 1..Len(frames) |-> frames[i].frame_number]

FeederUsesBuffer == shared.feeder \in {"add", "log"}
PlaybackUsesBuffer ==
    shared.playback \in {"wait_locked", "depth_locked", "next_locked",
                          "report_locked", "underrun_locked"}

\* C23: the feeder and the playback loop never use the buffer at the same
\* time, and every next_frame call made by the playback loop returns a frame
\* that is an element of a batch held by the buffer, at the cursor it moved
\* past, or one of the errors next_frame defines.
C23_MutualExclusion ==
    /\ [](~(FeederUsesBuffer /\ PlaybackUsesBuffer))
    /\ [][(shared.playback = "next_locked" /\ shared'.playback # "next_locked") =>
             \/ /\ fb_last'.res.ok
                /\ fb'.current_sequence \in keys(fb'.buffer)
                /\ fb'.current_frame_index \in
                       1..Len(fb'.buffer[fb'.current_sequence])
                /\ fb_last'.res.val =
                       fb'.buffer[fb'.current_sequence][fb'.current_frame_index]
                /\ fb'.buffer = fb.buffer
             \/ /\ ~fb_last'.res.ok
                /\ fb_last'.res.err \in {"Buffer is empty", "Empty frame batch"}]_vars

\* C23 witness: the playback loop is about to call next_frame under the guard
\* on a buffer that holds frames, while the feeder waits for the lock with a
\* batch to add.
C23_Witness ==
    /\ shared.playback = "next_locked"
    /\ shared.feeder = "lock_add"
    /\ shared.locked = "playback"
    /\ fb.frame_count > 0

\* the number of frames held by the buffer
RECURSIVE SumLens(_, _)
SumLens(b, ks) ==
    IF ks = {} THEN 0
    ELSE LET k == SetMin(ks) IN Len(b.buffer[k]) + SumLens(b, ks \ {k})
HeldFrames(b) == SumLens(b, keys(b.buffer))

\* C29: the rate the playback loop chooses at a tick is the rate for the
\* number of frames the buffer holds at that moment: half the target below
\* 10 frames, 1.5 times the target above 50, the target otherwise.
C29_AdaptivePacing ==
    [][(shared.playback = "depth_locked" /\ shared'.playback = "next") =>
          shared'.adaptive_fps_x2 = adaptive_fps_x2(TargetFps, HeldFrames(fb))]_vars

(***************************************************************************)
(* Properties of the receiver's decoder task (SpecMetadata)                *)
(***************************************************************************)
\* C25: when a batch arrives, a metadata change is detected exactly if the
\* batch's metadata differs from the previous batch's or the batch is the
\* first, and after a detection the display runs with the fps, width and
\* height of the new metadata.
C25_MetadataChange ==
    [][Len(rx'.received) = Len(rx.received) + 1 =>
          LET n == Len(rx'.received)
              metadata == rx'.received[n]
              differs == n = 1 \/ rx'.received[n - 1] # metadata
              detected == Len(rx'.logged) = Len(rx.logged) + 1
          IN  /\ detected <=> differs
              /\ detected =>
                    /\ rx'.logged[Len(rx'.logged)] = metadata
                    /\ rx'.display = [fps |-> metadata.fps, width |-> metadata.width,
                                      height |-> metadata.height]]_vars

(***************************************************************************)
(* Properties of decoding arbitrary payloads (SpecBytes)                   *)
(***************************************************************************)
\* C26: every call of decode, for every payload, kind and previous frame,
\* returns (a frame or a decode error): no call panics or aborts.
C26_DecodeReturns == codec.stage \notin {"panicked", "aborted"}

\* the entries of an RLE payload from byte offset i: some entry, with its
\* count and length bytes present, declares more character bytes than the
\* payload has left, or its character bytes are not UTF-8 or hold no character
RECURSIVE RleEntryFault(_, _)
RleEntryFault(data, i) ==
    IF Len(data) - i < 3 THEN FALSE
    ELSE LET char_len == data[i + 3]
             j == i + 3
         IN  \/ j + char_len > Len(data)
             \/ LET s == from_utf8(Slice(data, j, j + char_len))
                IN  IF ~s.ok \/ s.val = <<>> THEN TRUE
                    ELSE RleEntryFault(data, j + char_len)

\* C27: RLE decode returns an error for every payload with an entry whose
\* declared character length runs past the end of the payload (also when only
\* the count and length bytes are left), whose character bytes are not valid
\* UTF-8, or whose character bytes hold no character.
C27_RleDecodeErrors ==
    (codec.stage = "returned" /\ codec.kind = "Rle"
        /\ RleEntryFault(codec.frame.data, 0)) => ~codec.result.ok

(***************************************************************************)
(* Properties of the serialized batch (SpecWire)                           *)
(***************************************************************************)
\* C30: decode_from_bytes of the bytes encode_to_bytes produced for a batch
\* succeeds and yields a batch equal to it in every field.
C30_BatchRoundTrip ==
    wire.stage = "back" =>
        /\ wire.back.ok
        /\ wire.back.val.stream_id = wire.batch.stream_id
        /\ wire.back.val.sequence = wire.batch.sequence
        /\ wire.back.val.metadata = wire.batch.metadata
        /\ wire.back.val.frames = wire.batch.frames
        /\ wire.back.val.timestamp = wire.batch.timestamp

\* C30 witness: a batch of two different frames, one of them with a payload
\* longer than 255 bytes, with the largest sequence number and a timestamp
\* above 2^32, came back from its bytes.
C30_Witness ==
    /\ wire.stage = "back"
    /\ wire.back.ok
    /\ Len(wire.back.val.frames) = 2
    /\ wire.back.val.frames[1] # wire.back.val.frames[2]
    /\ \E i \in 1..2 : Len(wire.back.val.frames[i].data) > 255
    /\ wire.back.val.sequence = <<65535, 65535, 65535, 65535>>
    /\ wire.back.val.timestamp = <<63232, 20803, 410, 0>>

(***************************************************************************)
(* The size check of add_frame (SpecSender)                                *)
(***************************************************************************)
\* the CompressedFrame that the add_frame call of this step produced: the last
\* pending frame or, when the call left nothing pending, the last emitted one
Compressed(b, out) ==
    IF b.current_batch # <<>> THEN b.current_batch[Len(b.current_batch)]
    ELSE LET frames == out[Len(out)].frames IN frames[Len(frames)]

\* C31: every emitted batch of two or more frames has serialized size at most
\* max_batch_size; when appending the new frame to a non-empty pending list
\* would exceed the limit, add_frame emits the frames pending before the call
\* without it and the new frame is the only pending frame afterwards; when it
\* fits it joins the pending frames; a frame that meets an empty pending list
\* is accepted whatever its size.
C31_SizeCheckOnOverflow ==
    [][/\ \A i \in 1..Len(emitted') :
              Len(emitted'[i].frames) >= 2
                  => size_bytes(emitted'[i]) <= batcher.max_batch_size
       /\ Len(inputs') = Len(inputs) + 1 =>
              LET pending == batcher.current_batch
                  c == Compressed(batcher', emitted')
                  tentative == [FrameBatch(batcher) EXCEPT !.frames = Append(pending, c)]
                  joined == \/ batcher'.current_batch = Append(pending, c)
                            \/ /\ batcher'.current_batch = <<>>
                               /\ Len(emitted') = Len(emitted) + 1
                               /\ emitted'[Len(emitted')].frames = Append(pending, c)
              IN  /\ c.frame_number = Len(inputs)
                  /\ IF pending # <<>> /\ size_bytes(tentative) > batcher.max_batch_size
                     THEN /\ Len(emitted') = Len(emitted) + 1
                          /\ emitted'[Len(emitted')].frames = pending
                          /\ batcher'.current_batch = <<c>>
                     ELSE joined]_vars

\* C31 witness: with three frames per batch the third frame did not fit: the
\* first two frames were emitted as a batch within the limit and the third is
\* the only pending frame.
C31_Witness ==
    /\ batcher.frames_per_batch = 3
    /\ Len(inputs) = 3
    /\ Len(emitted) = 1
    /\ Len(emitted[1].frames) = 2
    /\ size_bytes(emitted[1]) <= batcher.max_batch_size
    /\ Len(batcher.current_batch) = 1
    /\ batcher.current_batch[1].frame_number = 2
    /\ size_bytes([emitted[1] EXCEPT !.frames = @ \o batcher.current_batch])
           > batcher.max_batch_size


(***************************************************************************)
(* Further properties of the jitter buffer (SpecBuffer)                    *)
(***************************************************************************)
\* C32: when two next_frame calls in a row, with no add_batch between them,
\* both return a frame, the second returns another buffered frame (another
\* sequence or another index) than the first.
C32_NoReplay ==
    [][(/\ fb_last.op = "next_frame" /\ fb_last.res.ok
        /\ fb_last'.op = "next_frame" /\ fb_last'.res.ok
        /\ adds' = adds
        /\ Len(played) = 1 /\ Len(played') = 2)
           => played'[2] # played'[1]]_vars


\* C33: once the last add_batch has been made and some buffered sequence has a
\* non-empty frame list, the repeated next_frame calls eventually return a
\* frame, also when another buffered sequence has an empty frame list.
C33_ProgressPastEmpty ==
    (/\ Len(adds) = MaxAdds
     /\ fb_last.op = "add_batch"
     /\ \E k \in keys(fb.buffer) : fb.buffer[k] # <<>>)
        ~> (fb_last.op = "next_frame" /\ fb_last.res.ok)


\* C34: after every add_batch and next_frame call, frame_count is the sum of
\* the lengths of the frame lists the buffer holds (and so is never negative,
\* as a usize that has not wrapped).
C34_FrameCountExact ==
    /\ fb.frame_count = HeldFrames(fb)
    /\ fb.frame_count >= 0


(***************************************************************************)
(* Delta continuity in the batcher (SpecSender)                            *)
(***************************************************************************)
\* every CompressedFrame produced so far, emitted or still pending, in order
ProducedFrames == EmittedFrames \o batcher.current_batch

\* C35: the batcher holds the plaintext of its last input frame as the delta
\* reference, and every frame i it produced that is not a keyframe was encoded
\* against the plaintext of input frame i-1, whether frame i-1 was a keyframe,
\* closed the batch emitted before, or was deferred to a new batch on overflow.
C35_DeltaContinuity ==
    /\ batcher.previous_frame = IF inputs = <<>> THEN None ELSE Some(inputs[Len(inputs)])
    /\ Len(ProducedFrames) = Len(inputs)
    /\ \A k \in 1..Len(ProducedFrames) :
           LET cf == ProducedFrames[k]
           IN  /\ cf.frame_number = k - 1
               /\ ~cf.is_keyframe =>
                      /\ k > 1
                      /\ cf.data = encoder_encode(batcher.compression_type, inputs[k],
                                                  Some(inputs[k - 1]))

\* C35 witness: under Delta compression frame 0, a keyframe, was emitted alone
\* when frame 1 did not fit with it, frame 1 was deferred and emitted alone when
\* frame 2 did not fit with it, and frame 2, pending, is a delta frame; the
\* three input frames differ from their predecessors.
C35_Witness ==
    /\ batcher.compression_type = "Delta"
    /\ batcher.keyframe_interval = 3
    /\ batcher.frames_per_batch = 3
    /\ Len(inputs) = 3
    /\ inputs[3] # inputs[2] /\ inputs[1] # inputs[2]
    /\ Len(emitted) = 2
    /\ Len(emitted[1].frames) = 1 /\ Len(emitted[2].frames) = 1
    /\ Len(batcher.current_batch) = 1
    /\ size_bytes([emitted[1] EXCEPT !.frames = @ \o emitted[2].frames])
           > batcher.max_batch_size
    /\ size_bytes([emitted[2] EXCEPT !.frames = @ \o batcher.current_batch])
           > batcher.max_batch_size
    /\ ~emitted[2].frames[1].is_keyframe
    /\ ~batcher.current_batch[1].is_keyframe

(***************************************************************************)
(* Decoding after loss (SpecLossy)                                         *)
(***************************************************************************)
\* C36: under loss of whole batches, every frame of a delivered batch that
\* FrameDecoder::decode_frame returns successfully is the frame the batcher
\* was given under that frame number.
C36_NoCorruptFrame ==
    [][(delivered' = delivered + 1 /\ lost' = lost) =>
          LET batch == emitted[delivered + 1]
              attempts == Attempts(decoder, batch.frames, 1)
          IN  \A p \in 1..Len(batch.frames) :
                  attempts[p].ok => attempts[p].val = inputs[batch.frames[p].frame_number + 1]]_vars


(***************************************************************************)
(* The capacity of the jitter buffer (SpecBuffer)                          *)
(***************************************************************************)
\* C37: with capacity at least 1, after every add_batch call, whatever the
\* order of the sequence numbers and with duplicates, the buffer holds at most
\* capacity distinct sequences, and an add_batch call removes at most one
\* sequence from the buffer.
C37_CapacityBound ==
    [][Len(adds') = Len(adds) + 1 =>
          /\ fb.capacity >= 1 => Cardinality(keys(fb'.buffer)) <= fb'.capacity
          /\ Cardinality(keys(fb.buffer) \ keys(fb'.buffer)) <= 1]_vars

\* C37 witness: capacity 2, add_batch was called for the sequences 5, 7, 2 in
\* this order; the buffer was full at the third call, sequence 5 was evicted
\* and the buffer holds 2 and 7.
C37_Witness ==
    /\ fb.capacity = 2
    /\ [i \in 1..Len(adds) |-> adds[i].sequence] = <<5, 7, 2>>
    /\ keys(fb.buffer) = {2, 7}


C39_NoOscillation ==
    [][/\ (pb.is_playing /\ pb.buffer # <<>> /\ pb' # pb /\ chan' = chan) =>
              /\ pb'.frames_displayed = pb.frames_displayed + 1
              /\ pb'.buffer = Tail(pb.buffer)
              /\ pb'.buffer # <<>> => pb'.is_playing
       /\ (pb.is_playing /\ ~pb'.is_playing) => pb'.buffer = <<>>
       /\ (pb.frames_displayed > 0 /\ ~pb.is_playing /\ pb'.is_playing)
              => Len(pb'.buffer) >= pb.resume_buffer_size]_vars

====
